---- MODULE Spec2Model ----
(***************************************************************************)
(* translate-cli: the resilient request pipeline.                          *)
(*   HTTPClient (retry / backoff / error conversion)                       *)
(*   GoogleTranslationEngine (response parsing, error messages)            *)
(*   TranslationService (translate, batchTranslate)                        *)
(*                                                                         *)
(* Strings.  The program's Chinese message literals are written here in    *)
(* pinyin, one capitalised syllable per character, so that the substring   *)
(* relations String.includes tests are kept:                               *)
(*   ChaoShi = 超时, WuFaLianJie = 无法连接, WuFaJieXi = 无法解析,         *)
(*   FanYiShiBai = 翻译失败, WeiZhiCuoWu = 未知错误, ...                   *)
(***************************************************************************)
EXTENDS Integers, Sequences, FiniteSets, TLC

(***************************************************************************)
(* Bounds of the exploration.                                              *)
(***************************************************************************)
\* longest target-language list given to batchTranslate
MaxTargets == 3
\* largest explicit `retries` option given to the constructor or to a call
MaxRetries == 2
\* longest fragment array data[0] of a provider response
MaxFragments == 2
\* largest `retries` of the clients the batch is explored with
MaxBatchRetries == 1
\* most lines of a configuration file
MaxLines == 2

(***************************************************************************)
(* Program constants.                                                      *)
(***************************************************************************)
DefaultRetries == 3
DefaultTimeoutMs == 10000
BackoffBaseMs == 100

(***************************************************************************)
(* JavaScript values, tagged by typeof / shape.                            *)
(***************************************************************************)
Undefined == [t |-> "undefined"]
Null == [t |-> "null"]
Obj == [t |-> "object"]
Str(s) == [t |-> "string", s |-> s]
Num(n) == [t |-> "number", n |-> n]
Bool(b) == [t |-> "boolean", b |-> b]
Arr(a) == [t |-> "array", a |-> a]

\* ToBoolean: what `!v` and `v || d` test
Truthy(v) ==
    CASE v.t = "undefined" -> FALSE
      [] v.t = "null"      -> FALSE
      [] v.t = "string"    -> v.s # ""
      [] v.t = "number"    -> v.n # 0
      [] v.t = "boolean"   -> v.b
      [] OTHER             -> TRUE

IsArray(v) == v.t = "array"

\* v[0]: the first element of an array, undefined when there is none;
\* indexing any other value met here yields undefined as well
Index0(v) == IF IsArray(v) /\ Len(v.a) >= 1 THEN v.a[1] ELSE Undefined

\* String.prototype.includes
Includes(s, sub) ==
    \E i \in 1..(Len(s) - Len(sub) + 1) : SubSeq(s, i, i + Len(sub) - 1) = sub

\* String.prototype.startsWith
StartsWith(s, pre) == Len(s) >= Len(pre) /\ SubSeq(s, 1, Len(pre)) = pre

RECURSIVE JSToString(_)
RECURSIVE Join(_, _)
\* Array.prototype.join: null and undefined elements give "", any other
\* element gives ToString(element)
Join(a, sep) ==
    IF a = <<>> THEN ""
    ELSE (IF Head(a).t \in {"null", "undefined"} THEN "" ELSE JSToString(Head(a)))
         \o (IF Len(a) > 1 THEN sep \o Join(Tail(a), sep) ELSE "")

\* ToString of a value (an array is joined with ",")
JSToString(v) ==
    CASE v.t = "string"    -> v.s
      [] v.t = "number"    -> ToString(v.n)
      [] v.t = "boolean"   -> (IF v.b THEN "true" ELSE "false")
      [] v.t = "null"      -> "null"
      [] v.t = "undefined" -> "undefined"
      [] v.t = "array"     -> Join(v.a, ",")
      [] OTHER             -> "[object Object]"

(***************************************************************************)
(* Completions: a call either returns a value or throws one.               *)
(***************************************************************************)
Return(v) == [type |-> "return", value |-> v]
Throw(e) == [type |-> "throw", value |-> e]

\* an HTTPError constructor that drops the status code
HTTPErrorWithoutStatus(msg, status) == [class |-> "HTTPError", message |-> msg, statusCode |-> Undefined]

\* thrown values
Error(msg) == [class |-> "Error", message |-> msg]
SyntaxError(msg) == [class |-> "SyntaxError", message |-> msg]
HTTPError(msg, status) == [class |-> "HTTPError", message |-> msg, statusCode |-> status]
\* a thrown value that is no Error object (throw "text")
NonError == [class |-> "none"]

InstanceOfError(e) == e.class \in {"Error", "SyntaxError", "HTTPError"}
InstanceOfHTTPError(e) == e.class = "HTTPError"

(***************************************************************************)
(* HTTPClient: what one network attempt can throw, the retry decision and  *)
(* the conversion of the last failure.                                     *)
(***************************************************************************)
\* an AxiosError: `response` is undefined when no response was received
AxiosError(code, message, response) == [isAxiosError |-> TRUE, code |-> code, message |-> message, response |-> response]

Response(status) == [status |-> status]

\* statuses axios rejects (validateStatus accepts 2xx only)
HttpStatuses == {302, 400, 404, 429, 500, 501, 502, 503, 504}

NetTimeout == AxiosError("ECONNABORTED", "timeout of 10000ms exceeded", Undefined)
NetDns == AxiosError("ENOTFOUND", "getaddrinfo ENOTFOUND translate.googleapis.com", Undefined)
NetDnsAgain == AxiosError("EAI_AGAIN", "getaddrinfo EAI_AGAIN translate.googleapis.com", Undefined)
NetRefused == AxiosError("ECONNREFUSED", "connect ECONNREFUSED 127.0.0.1:443", Undefined)
HttpFailure(status) == AxiosError("ERR_BAD_RESPONSE", "Request failed with status code " \o ToString(status), Response(status))
\* an Error thrown by the request that axios did not create
NonAxiosFailure == [isAxiosError |-> FALSE, code |-> "", message |-> "boom", response |-> Undefined]

NetworkFailures == {NetTimeout, NetDns, NetDnsAgain, NetRefused}
RawFailures == NetworkFailures \cup {HttpFailure(st) : st \in HttpStatuses} \cup {NonAxiosFailure}

\* axios.isAxiosError: false for undefined and for foreign errors
IsAxiosError(e) == ("isAxiosError" \in DOMAIN e) /\ e.isAxiosError

\* a retry test that takes every error status for transient
isRetryableErrorAnyStatus(e) ==
    IF ~IsAxiosError(e) THEN FALSE
    ELSE IF e.response = Undefined THEN TRUE
    ELSE e.response.status >= 400

\* HTTPClient.isRetryableError
isRetryableError(e) ==
    IF ~IsAxiosError(e) THEN FALSE
    ELSE IF e.response = Undefined THEN TRUE
    ELSE e.response.status >= 500 \/ e.response.status = 429

\* a conversion that takes every status from 500 on for 'temporarily
\* unavailable'
convertErrorEvery5xx(e) ==
    IF ~IsAxiosError(e) THEN HTTPError("WeiZhiCuoWu", Undefined)
    ELSE IF e.code = "ECONNABORTED" \/ Includes(e.message, "timeout")
    THEN HTTPError("FanYiQingQiuChaoShi", Undefined)
    ELSE IF e.response = Undefined THEN
        IF e.code = "ENOTFOUND" \/ e.code = "EAI_AGAIN"
        THEN HTTPError("WuFaJieXiFanYiFuWuDiZhi", Undefined)
        ELSE HTTPError("WuFaLianJieDaoFanYiFuWu", Undefined)
    ELSE LET status == e.response.status IN
         CASE status = 400 -> HTTPError("WuXiaoDeFanYiQingQiu", Num(status))
           [] status = 429 -> HTTPError("QingQiuGuoYuPinFan, QingShaoHouChongShi", Num(status))
           [] status >= 500 -> HTTPError("FanYiFuWuZanShiBuKeYong", Num(status))
           [] OTHER -> HTTPError("FanYiShiBai: " \o ToString(status), Num(status))

\* HTTPClient.convertError (its argument is undefined when no attempt ran)
convertError(e) ==
    IF IsAxiosError(e) THEN
        IF e.code = "ECONNABORTED" \/ Includes(e.message, "timeout")
        THEN HTTPError("FanYiQingQiuChaoShi", Undefined)
        ELSE IF e.response = Undefined THEN
            IF e.code = "ENOTFOUND" \/ e.code = "EAI_AGAIN"
            THEN HTTPError("WuFaJieXiFanYiFuWuDiZhi", Undefined)
            ELSE HTTPError("WuFaLianJieDaoFanYiFuWu", Undefined)
        ELSE
            LET status == e.response.status IN
            CASE status = 400 -> HTTPError("WuXiaoDeFanYiQingQiu", Num(status))
              [] status = 429 -> HTTPError("QingQiuGuoYuPinFan, QingShaoHouChongShi", Num(status))
              [] status \in {500, 502, 503, 504} -> HTTPError("FanYiFuWuZanShiBuKeYong", Num(status))
              [] OTHER -> HTTPError("FanYiShiBai: " \o ToString(status), Num(status))
    ELSE HTTPError("WeiZhiCuoWu", Undefined)

\* constructor: this.defaultRetries = options?.retries || 3
ConstructDefaultRetries(optRetries) == IF Truthy(optRetries) THEN optRetries.n ELSE DefaultRetries

\* constructor: this.defaultTimeout = options?.timeout || 10000
ConstructDefaultTimeout(optTimeout) == IF Truthy(optTimeout) THEN optTimeout.n ELSE DefaultTimeoutMs

\* requestWithRetry: options?.retries !== undefined ? options.retries : this.defaultRetries
EffectiveMaxRetries(callRetries, dflt) == IF callRetries # Undefined THEN callRetries.n ELSE dflt

\* requestWithRetry: Math.pow(2, attempt) * 100
BackoffDelay(attempt) == (2 ^ attempt) * BackoffBaseMs

\* requestWithRetry, catch block: after a failed attempt, is another one made?
RetryAfterFailure(attempt, maxRetries, e) == attempt # maxRetries /\ isRetryableError(e)

(***************************************************************************)
(* Response bodies.  A text is either the JSON serialisation of a value    *)
(* ([json |-> v]) or characters JSON.parse rejects ([raw |-> s]).          *)
(***************************************************************************)
JSONStringify(v) == [json |-> v]
RawText(s) == [raw |-> s]
JSONParse(text) == IF "json" \in DOMAIN text THEN Return(text.json) ELSE Throw(SyntaxError("Unexpected token"))

\* response.data: a string body, or the value axios parsed from a JSON body
StringData(text) == [typeof |-> "string", text |-> text]
ParsedData(v) == [typeof |-> "object", value |-> v]

\* requestWithRetry: typeof response.data === 'string' ? response.data : JSON.stringify(response.data)
ResponseText(data) == IF data.typeof = "string" THEN data.text ELSE JSONStringify(data.value)

(***************************************************************************)
(* GoogleTranslationEngine.parseTranslationResponse                        *)
(***************************************************************************)
MsgNotArray == "WuFaJieXiFanYiXiangYing: XiangYingBuShiShuZuGeShi"
MsgMissingData == "WuFaJieXiFanYiXiangYing: QueShaoFanYiShuJu"
MsgNoValidContent == "WuFaJieXiFanYiXiangYing: XiangYingZhongMeiYouYouXiaoDeFanYiNeiRong"
MsgJsonFormat == "WuFaJieXiFanYiXiangYing: JSON GeShiCuoWu"
MsgParseUnknown == "WuFaJieXiFanYiXiangYing: WeiZhiCuoWu"

\* a filter that keeps every fragment that is an array
KeepEveryArray(item) == IsArray(item)

\* the filter predicate of data[0].filter(...)
KeepFragment(item) ==
    /\ IsArray(item)
    /\ Index0(item) # Null
    /\ Index0(item) # Undefined
    /\ Index0(item) # Str("")

\* a map that takes the last slot of each fragment
MapLast(items) == [i \in 1..Len(items) |-> items[i].a[Len(items[i].a)]]

\* .map((item) => item[0])
MapFirst(items) == [i \in 1..Len(items) |-> Index0(items[i])]

\* the try block of parseTranslationResponse
ParseTry(responseText) ==
    LET parsed == JSONParse(responseText) IN
    IF parsed.type = "throw" THEN parsed
    ELSE LET data == parsed.value IN
         IF ~IsArray(data) THEN Throw(Error(MsgNotArray))
         ELSE IF ~Truthy(Index0(data)) \/ ~IsArray(Index0(data)) THEN Throw(Error(MsgMissingData))
         ELSE LET translations == MapFirst(SelectSeq(Index0(data).a, KeepFragment)) IN
              IF Len(translations) = 0 THEN Throw(Error(MsgNoValidContent))
              ELSE Return(Join(translations, ""))

\* a method without the top-level check: a body that is no array is reported
\* as lacking translation data
parseWithoutTopLevelCheck(responseText) ==
    LET c == ParseTry(responseText) IN
    IF c.type = "return" THEN c
    ELSE IF c.value.class = "SyntaxError" THEN Throw(Error(MsgJsonFormat))
    ELSE IF c.value = Error(MsgNotArray) THEN Throw(Error(MsgMissingData))
    ELSE c

\* the whole method: the catch block rewrites what the try block threw
parseTranslationResponse(responseText) ==
    LET c == ParseTry(responseText) IN
    IF c.type = "return" THEN c
    ELSE IF c.value.class = "SyntaxError" THEN Throw(Error(MsgJsonFormat))
    ELSE IF InstanceOfError(c.value) THEN c
    ELSE Throw(Error(MsgParseUnknown))

(***************************************************************************)
(* ErrorMessageGenerator.generate                                          *)
(***************************************************************************)
Prefix(engineName) == "[" \o engineName \o "] "

\* a generator that passes the raw message of every Error on
generateRawMessage(error, engineName) ==
    IF InstanceOfError(error) THEN Prefix(engineName) \o error.message
    ELSE Prefix(engineName) \o "FanYiShiBai"

\* a classification that tests the status class before the status 429
generateStatusClassFirst(error, engineName) ==
    IF InstanceOfHTTPError(error) /\ Truthy(error.statusCode) /\ error.statusCode.n >= 400
    THEN Prefix(engineName) \o "FanYiFuWuZanShiBuKeYong (" \o ToString(error.statusCode.n) \o ")"
    ELSE Prefix(engineName) \o "FanYiShiBai"

generate(error, engineName) ==
    IF InstanceOfHTTPError(error) THEN
        IF error.statusCode = Num(429) THEN Prefix(engineName) \o "QingQiuGuoYuPinFan, QingShaoHouChongShi"
        ELSE IF ~Truthy(error.statusCode) THEN
            IF Includes(error.message, "ChaoShi") THEN Prefix(engineName) \o "FanYiQingQiuChaoShi"
            ELSE IF Includes(error.message, "WuFaLianJie") THEN Prefix(engineName) \o "WuFaLianJieDaoFanYiFuWu"
            ELSE IF Includes(error.message, "WuFaJieXi") THEN Prefix(engineName) \o "WuFaJieXiFanYiFuWuDiZhi"
            ELSE Prefix(engineName) \o "WangLuoCuoWu: " \o error.message
        ELSE IF error.statusCode.n >= 500
        THEN Prefix(engineName) \o "FanYiFuWuZanShiBuKeYong (" \o ToString(error.statusCode.n) \o ")"
        ELSE Prefix(engineName) \o error.message
    ELSE IF InstanceOfError(error) THEN
        IF Includes(error.message, "WuFaJieXi")
        THEN Prefix(engineName) \o "XiangYingGeShiCuoWu: WuFaJieXiFanYiJieGuo"
        ELSE Prefix(engineName) \o error.message
    ELSE Prefix(engineName) \o "FanYiShiBai"

\* GoogleTranslationEngine.generateErrorMessage
generateErrorMessage(error) == generate(error, "Google")

(***************************************************************************)
(* GoogleTranslationEngine.translate, given how httpClient.get completed   *)
(***************************************************************************)
\* the try block: get, parse, build the success result
TranslateTry(request, got) ==
    IF got.type = "throw" THEN got
    ELSE LET parsed == parseTranslationResponse(got.value) IN
         IF parsed.type = "throw" THEN parsed
         ELSE Return([targetLanguage |-> request.targetLanguage,
                      languageName |-> request.targetLanguage,
                      translatedText |-> parsed.value,
                      success |-> TRUE])

\* a catch block that handles HTTPError only and rethrows anything else
TranslateCatchHTTPErrorOnly(request, c) ==
    IF c.type = "throw" /\ InstanceOfHTTPError(c.value)
    THEN Return([targetLanguage |-> request.targetLanguage,
                 languageName |-> request.targetLanguage,
                 translatedText |-> "",
                 success |-> FALSE,
                 error |-> generateErrorMessage(c.value)])
    ELSE c

\* the catch block: every thrown value becomes a failed result
TranslateCatch(request, c) ==
    IF c.type = "throw"
    THEN Return([targetLanguage |-> request.targetLanguage,
                 languageName |-> request.targetLanguage,
                 translatedText |-> "",
                 success |-> FALSE,
                 error |-> generateErrorMessage(c.value)])
    ELSE c

EngineTranslate(request, got) == TranslateCatch(request, TranslateTry(request, got))

(***************************************************************************)
(* TranslationService                                                      *)
(***************************************************************************)
\* this.targetLanguages.find((lang) => lang.code === targetLanguage)
FindLanguage(configured, code) ==
    IF \E i \in 1..Len(configured) : configured[i].code = code
    THEN LET i == CHOOSE k \in 1..Len(configured) :
                      /\ configured[k].code = code
                      /\ \A j \in 1..(k - 1) : configured[j].code # code
         IN configured[i]
    ELSE Undefined

\* a resolution that always answers the raw code
LanguageNameRawCode(configured, code) == code

\* languageConfig?.name || targetLanguage
LanguageName(configured, code) ==
    LET languageConfig == FindLanguage(configured, code) IN
    IF languageConfig # Undefined /\ languageConfig.name # "" THEN languageConfig.name ELSE code

\* TranslationService.translate, given how engine.translate completed:
\* { ...result, languageName }; a rejection of the engine passes through
ServiceTranslate(configured, request, engineDone) ==
    IF engineDone.type = "throw" THEN engineDone
    ELSE Return([engineDone.value EXCEPT !.languageName = LanguageName(configured, request.targetLanguage)])

\* the states of a promise, and the entries Promise.allSettled resolves to;
\* every entry is a fresh object, `ref` is its identity
Pending == [status |-> "pending"]
Fulfilled(v) == [status |-> "fulfilled", value |-> v]
Rejected(e) == [status |-> "rejected", reason |-> e]

\* an async function's promise settles with its completion
SettleWith(done) == IF done.type = "return" THEN Fulfilled(done.value) ELSE Rejected(done.value)

SettledEntry(p, ref) ==
    IF p.status = "fulfilled" THEN [ref |-> ref, status |-> p.status, value |-> p.value]
    ELSE IF p.status = "rejected" THEN [ref |-> ref, status |-> p.status, reason |-> p.reason]
    ELSE [ref |-> ref, status |-> p.status]

\* a join that resumes only once every promise has been fulfilled
AllFulfilled(ps, n) == \A i \in 1..n : ps[i].status = "fulfilled"

\* a race instead of a join: resumes once any promise has settled
AnySettled(ps, n) == \E i \in 1..n : ps[i].status # "pending"

\* await Promise.allSettled(translationPromises): resumes once none is pending
AllSettled(ps, n) == \A i \in 1..n : ps[i].status # "pending"

\* indexOf compared by content instead of identity: the first entry of the same
\* status
IndexOfByStatus(settled, result) ==
    IF \E i \in 1..Len(settled) : settled[i].status = result.status
    THEN CHOOSE i \in 1..Len(settled) :
            /\ settled[i].status = result.status
            /\ \A j \in 1..(i - 1) : settled[j].status # result.status
    ELSE 0

\* results.indexOf(result): strict equality, so the entry itself (positions
\* are counted from 1 here)
IndexOf(settled, result) ==
    IF \E i \in 1..Len(settled) : settled[i].ref = result.ref
    THEN CHOOSE i \in 1..Len(settled) :
            /\ settled[i].ref = result.ref
            /\ \A j \in 1..(i - 1) : settled[j].ref # result.ref
    ELSE 0

\* a callback that has lost the position of the entry: the synthesized entry
\* is made for the first target
CollectResultFirstTarget(settled, result, langs, configured) ==
    IF result.status = "fulfilled" THEN result.value
    ELSE [targetLanguage |-> langs[1],
          languageName |-> IF \E i \in 1..Len(configured) : configured[i].code = langs[1]
                           THEN configured[CHOOSE i \in 1..Len(configured) : configured[i].code = langs[1]].name
                           ELSE langs[1],
          translatedText |-> "",
          success |-> FALSE,
          error |-> "FanYiShiBai"]

\* a callback whose synthesized entry carries no error
CollectResultNoError(settled, result, langs, configured) ==
    IF result.status = "fulfilled" THEN result.value
    ELSE LET index == IndexOf(settled, result)
             targetLanguage == langs[index]
         IN [targetLanguage |-> targetLanguage,
             languageName |-> LanguageName(configured, targetLanguage),
             translatedText |-> "",
             success |-> FALSE]

\* the callback of results.map(...) in batchTranslate
CollectResult(settled, result, langs, configured) ==
    IF result.status = "fulfilled" THEN result.value
    ELSE LET index == IndexOf(settled, result)
             targetLanguage == langs[index]
         IN [targetLanguage |-> targetLanguage,
             languageName |-> LanguageName(configured, targetLanguage),
             translatedText |-> "",
             success |-> FALSE,
             error |-> "FanYiShiBai"]

\* a default that also replaces an empty list
BatchLanguagesEmptyAsOmitted(targetArg, configured) ==
    IF targetArg # Undefined /\ Len(targetArg.a) > 0 THEN targetArg.a
    ELSE [i \in 1..Len(configured) |-> configured[i].code]

\* targetLanguages || this.targetLanguages.map((lang) => lang.code)
BatchLanguages(targetArg, configured) ==
    IF targetArg # Undefined THEN targetArg.a ELSE [i \in 1..Len(configured) |-> configured[i].code]

(***************************************************************************)
(* TranslationEngineFactory, the TranslationService constructor, and the   *)
(* engine selection of the command line.                                   *)
(***************************************************************************)
\* TranslationEngineFactory.getAvailableEngines
getAvailableEngines == <<Str("google")>>

\* availableEngines.includes(engineType)
IncludesEngine(engines, engineType) == \E i \in 1..Len(engines) : engines[i] = Str(engineType)

\* a factory that falls back to the Google engine for an unknown type
createEngineWithFallback(engineType) == Return([name |-> "google"])

\* TranslationEngineFactory.createEngine
createEngine(engineType) ==
    IF engineType = "google" THEN Return([name |-> "google"])
    ELSE Throw(Error("Unknown engine type: " \o engineType \o ". Available engines: "
                     \o Join(getAvailableEngines, ", ")))

\* new TranslationService(first, ...): a string first argument is the engine
\* type, anything else (an HTTPClient, or nothing) selects the legacy
\* signature and the engine 'google'; `languages` is the list given, if any
NewTranslationService(first, languages) ==
    LET engineType == IF first.t = "string" THEN first.s ELSE "google"
        engine == createEngine(engineType)
    IN IF engine.type = "throw" THEN engine
       ELSE Return([engine |-> engine.value.name, targetLanguages |-> languages])

\* String.prototype.toLowerCase, over the ASCII letters
UpperCaseLetters == "ABCDEFGHIJKLMNOPQRSTUVWXYZ"
LowerCaseLetters == "abcdefghijklmnopqrstuvwxyz"

LowerChar(ch) ==
    IF \E i \in 1..Len(UpperCaseLetters) : SubSeq(UpperCaseLetters, i, i) = ch
    THEN LET i == CHOOSE i \in 1..Len(UpperCaseLetters) : SubSeq(UpperCaseLetters, i, i) = ch
         IN SubSeq(LowerCaseLetters, i, i)
    ELSE ch

RECURSIVE ToLowerCase(_)
ToLowerCase(s) == IF s = "" THEN "" ELSE LowerChar(SubSeq(s, 1, 1)) \o ToLowerCase(SubSeq(s, 2, Len(s)))

\* ConfigLoader.isValidEngineType
isValidEngineType(engineType) == IncludesEngine(getAvailableEngines, ToLowerCase(engineType))

\* ConfigLoader.loadEngineType: CLI option, then TRANSLATE_ENGINE, then the
\* engine line of the configuration file (null when there is none), then the
\* default
loadEngineType(engineType, envEngine, fileEngine) ==
    IF Truthy(engineType) /\ isValidEngineType(engineType.s) THEN engineType.s
    ELSE IF Truthy(envEngine) /\ isValidEngineType(envEngine.s) THEN ToLowerCase(envEngine.s)
    ELSE IF Truthy(fileEngine) /\ isValidEngineType(fileEngine.s) THEN fileEngine.s
    ELSE "google"

\* main: the engine option passes the check when it is empty or available
EngineOptionAccepted(engine) == ~(Truthy(engine) /\ ~IncludesEngine(getAvailableEngines, engine.s))

\* what main writes to stderr when it rejects the engine option
InvalidEngineLines(engine) ==
    <<"Invalid engine: " \o engine.s, "Available engines: " \o Join(getAvailableEngines, ", ")>>

\* validateInput(sourceLanguage, text, languages): the list of errors, on the
\* source codes and texts met here ("ko" is a common code; "KO" fails the
\* format pattern; " " trims to nothing)
validateInput(sourceLanguage, text) ==
    (IF sourceLanguage = "" THEN <<"YuYanDaiMaBuNengWeiKong">>
     ELSE IF sourceLanguage # "ko" THEN <<"WuXiaoDeYuYanDaiMaGeShi: " \o sourceLanguage>>
     ELSE <<>>)
    \o (IF text = "" THEN <<"WenBenBuNengWeiKong">>
        ELSE IF text = " " THEN <<"WenBenBuNengWeiKongHuoJinBaoHanKongBaiZiFu">>
        ELSE <<>>)

(***************************************************************************)
(* ConfigLoader (config-loader.ts) over a file system.  A file system maps *)
(* a path to nothing, to something that exists but cannot be read as a     *)
(* file, or to a text file, given as the lines content.split('\n') yields. *)
(***************************************************************************)
DEFAULT_TARGET_LANGUAGES ==
    << [code |-> "en", name |-> "YingYu"], [code |-> "de", name |-> "DeYu"],
       [code |-> "fr", name |-> "FaYu"], [code |-> "es", name |-> "XiBanYaYu"],
       [code |-> "ru", name |-> "EYu"], [code |-> "el", name |-> "XiLaYu"],
       [code |-> "hi", name |-> "YinDiYu"], [code |-> "ar", name |-> "ALaBoYu"],
       [code |-> "ja", name |-> "RiYu"], [code |-> "zh-CN", name |-> "Han4Yu"],
       [code |-> "ko", name |-> "Han2Yu"] >>

SUPPORTED_DELIMITERS == <<":", ",", "=">>
COMMENT_PREFIX == "#"
DEFAULT_CONFIG_FILENAME == "languages.conf"

Absent == [kind |-> "absent"]
Unreadable == [kind |-> "unreadable"]
TextFile(lines) == [kind |-> "file", lines |-> lines]

\* fs.existsSync
existsSync(fs, path) == path \in DOMAIN fs /\ fs[path].kind # "absent"

\* fs.readFileSync(path, 'utf-8') followed by content.split('\n')
readFileSync(fs, path) ==
    IF fs[path].kind = "file" THEN Return(fs[path].lines)
    ELSE Throw(Error("EISDIR: illegal operation on a directory, read"))

\* String.prototype.trim, over the white space met here
WhiteSpace == {" ", "\t"}

RECURSIVE TrimStart(_)
TrimStart(s) ==
    IF s # "" /\ SubSeq(s, 1, 1) \in WhiteSpace THEN TrimStart(SubSeq(s, 2, Len(s))) ELSE s

RECURSIVE TrimEnd(_)
TrimEnd(s) ==
    IF s # "" /\ SubSeq(s, Len(s), Len(s)) \in WhiteSpace THEN TrimEnd(SubSeq(s, 1, Len(s) - 1)) ELSE s

Trim(s) == TrimEnd(TrimStart(s))

\* String.prototype.split with a one-character separator
RECURSIVE Split(_, _)
Split(s, separator) ==
    IF \E i \in 1..Len(s) : SubSeq(s, i, i) = separator
    THEN LET i == CHOOSE i \in 1..Len(s) :
                    /\ SubSeq(s, i, i) = separator
                    /\ \A j \in 1..(i - 1) : SubSeq(s, j, j) # separator
         IN <<SubSeq(s, 1, i - 1)>> \o Split(SubSeq(s, i + 1, Len(s)), separator)
    ELSE <<s>>

\* the first delimiter, in the order of SUPPORTED_DELIMITERS, that cuts the
\* line in two; 0 when none does
FirstDelimiter(line) ==
    IF \E d \in 1..Len(SUPPORTED_DELIMITERS) : Len(Split(line, SUPPORTED_DELIMITERS[d])) = 2
    THEN CHOOSE d \in 1..Len(SUPPORTED_DELIMITERS) :
            /\ Len(Split(line, SUPPORTED_DELIMITERS[d])) = 2
            /\ \A e \in 1..(d - 1) : Len(Split(line, SUPPORTED_DELIMITERS[e])) # 2
    ELSE 0

\* ConfigLoader.parseLine
parseLine(line) ==
    LET d == FirstDelimiter(line) IN
    IF d = 0 THEN Null
    ELSE LET parts == Split(line, SUPPORTED_DELIMITERS[d])
         IN [code |-> Trim(parts[1]), name |-> Trim(parts[2])]

\* the lines both parsers pass over: empty ones and comments
IsBlankOrComment(trimmedLine) == trimmedLine = "" \/ StartsWith(trimmedLine, COMMENT_PREFIX)

\* a parser that keeps every line a delimiter cuts in two
RECURSIVE parseConfigFileKeepingEmptyFields(_, _)
parseConfigFileKeepingEmptyFields(lines, index) ==
    IF index >= Len(lines) THEN [languages |-> <<>>, warnings |-> <<>>]
    ELSE LET trimmedLine == Trim(lines[index + 1])
             rest == parseConfigFileKeepingEmptyFields(lines, index + 1)
         IN IF trimmedLine = "" \/ StartsWith(trimmedLine, "#") \/ StartsWith(ToLowerCase(trimmedLine), "engine")
            THEN rest
            ELSE IF \E d \in {":", ",", "="} : Len(Split(trimmedLine, d)) = 2
            THEN LET d == IF Len(Split(trimmedLine, ":")) = 2 THEN ":"
                          ELSE IF Len(Split(trimmedLine, ",")) = 2 THEN "," ELSE "="
                     parts == Split(trimmedLine, d)
                 IN [rest EXCEPT !.languages = <<[code |-> Trim(parts[1]), name |-> Trim(parts[2])]>> \o @]
            ELSE [rest EXCEPT !.warnings =
                     <<"Line " \o ToString(index + 1) \o ": Malformed entry - expected format: code<delimiter>name">> \o @]

\* ConfigLoader.parseConfigFile: the callback of lines.forEach from the line
\* at `index` (counted from 0) on
RECURSIVE parseConfigFile(_, _)
parseConfigFile(lines, index) ==
    IF index >= Len(lines) THEN [languages |-> <<>>, warnings |-> <<>>]
    ELSE LET lineNumber == index + 1
             trimmedLine == Trim(lines[index + 1])
             rest == parseConfigFile(lines, index + 1)
             parsed == parseLine(trimmedLine)
         IN IF IsBlankOrComment(trimmedLine) THEN rest
            ELSE IF StartsWith(ToLowerCase(trimmedLine), "engine") THEN rest
            ELSE IF parsed # Null
            THEN IF Len(parsed.code) > 0 /\ Len(parsed.name) > 0
                 THEN [rest EXCEPT !.languages = <<parsed>> \o @]
                 ELSE [rest EXCEPT !.warnings =
                          <<"Line " \o ToString(lineNumber)
                              \o ": Invalid language configuration - code or name is empty">> \o @]
            ELSE [rest EXCEPT !.warnings =
                     <<"Line " \o ToString(lineNumber)
                         \o ": Malformed entry - expected format: code<delimiter>name">> \o @]

\* the inner loop of parseEngineFromFile for one line: the engine the line
\* names, Null when it names none
EngineOfLine(trimmedLine) ==
    LET names(d) == LET parts == Split(trimmedLine, SUPPORTED_DELIMITERS[d])
                    IN /\ StartsWith(ToLowerCase(trimmedLine), "engine")
                       /\ Len(parts) = 2
                       /\ ToLowerCase(Trim(parts[1])) = "engine"
    IN IF \E d \in 1..Len(SUPPORTED_DELIMITERS) : names(d)
       THEN LET d == CHOOSE d \in 1..Len(SUPPORTED_DELIMITERS) :
                        names(d) /\ \A e \in 1..(d - 1) : ~names(e)
            IN Str(ToLowerCase(Trim(Split(trimmedLine, SUPPORTED_DELIMITERS[d])[2])))
       ELSE Null

\* ConfigLoader.parseEngineFromFile
RECURSIVE parseEngineFromFile(_)
parseEngineFromFile(lines) ==
    IF lines = <<>> THEN Null
    ELSE LET trimmedLine == Trim(Head(lines)) IN
         IF IsBlankOrComment(trimmedLine) THEN parseEngineFromFile(Tail(lines))
         ELSE IF EngineOfLine(trimmedLine) # Null THEN EngineOfLine(trimmedLine)
         ELSE parseEngineFromFile(Tail(lines))

\* ConfigLoader.findConfigFile: --config, then TRANSLATE_CONFIG_PATH, then
\* languages.conf in the current directory; the first that exists
findConfigFile(fs, configPath, envPath) ==
    IF Truthy(configPath) /\ existsSync(fs, configPath.s) THEN configPath
    ELSE IF Truthy(envPath) /\ existsSync(fs, envPath.s) THEN envPath
    ELSE IF existsSync(fs, DEFAULT_CONFIG_FILENAME) THEN Str(DEFAULT_CONFIG_FILENAME)
    ELSE Null

\* the engine line of the file loadEngineType reads (priority 3); a file that
\* cannot be read counts as a file without one
FileEngine(fs, configPath, envPath) ==
    LET configFilePath == findConfigFile(fs, configPath, envPath) IN
    IF configFilePath = Null THEN Null
    ELSE LET content == readFileSync(fs, configFilePath.s)
         IN IF content.type = "throw" THEN Null ELSE parseEngineFromFile(content.value)

\* what loadEngineType writes with console.warn
EngineWarnings(engineType, envEngine, fileEngine) ==
    IF Truthy(engineType) /\ isValidEngineType(engineType.s) THEN <<>>
    ELSE (IF Truthy(engineType)
          THEN <<"Warning: Invalid engine type from CLI option: " \o engineType.s>> ELSE <<>>)
         \o (IF Truthy(envEngine) /\ isValidEngineType(envEngine.s) THEN <<>>
             ELSE (IF Truthy(envEngine)
                   THEN <<"Warning: Invalid engine type from environment variable: " \o envEngine.s>>
                   ELSE <<>>)
                  \o (IF Truthy(fileEngine) /\ ~isValidEngineType(fileEngine.s)
                      THEN <<"Warning: Invalid engine type from configuration file: " \o fileEngine.s>>
                      ELSE <<>>))

\* ConfigLoader.loadConfig(configPath, engineType) in an environment with
\* TRANSLATE_CONFIG_PATH = envPath and TRANSLATE_ENGINE = envEngine: the
\* Config returned, with the file findConfigFile chose and the lines written
\* to the console
loadConfig(fs, configPath, engineType, envPath, envEngine) ==
    LET fileEngine == FileEngine(fs, configPath, envPath)
        engine == loadEngineType(engineType, envEngine, fileEngine)
        said == EngineWarnings(engineType, envEngine, fileEngine)
        configFilePath == findConfigFile(fs, configPath, envPath)
        defaults(lines) == [languages |-> DEFAULT_TARGET_LANGUAGES, engineType |-> engine,
                            configFilePath |-> configFilePath, console |-> said \o lines]
    IN IF configFilePath = Null
       THEN defaults(IF Truthy(configPath)
                     THEN <<"Error: Configuration file not found: " \o configPath.s,
                            "Falling back to default language list">>
                     ELSE <<>>)
       ELSE LET content == readFileSync(fs, configFilePath.s) IN
            IF content.type = "throw"
            THEN defaults(<<"Error: Error reading configuration file: " \o content.value.message,
                            "Falling back to default language list">>)
            ELSE LET parsedLanguages == parseConfigFile(content.value, 0)
                     warned == [i \in 1..Len(parsedLanguages.warnings) |->
                                   "Warning: " \o parsedLanguages.warnings[i]]
                 IN IF Len(parsedLanguages.languages) = 0
                    THEN defaults(warned \o
                           <<"Warning: No valid language entries found in configuration file, using defaults">>)
                    ELSE [languages |-> parsedLanguages.languages, engineType |-> engine,
                          configFilePath |-> configFilePath, console |-> said \o warned]

(***************************************************************************)
(* ResultFormatter (result-formatter.ts).  The string format returns is    *)
(* kept as the sequence of its lines (the array that is joined with        *)
(* newlines); a coloured text is the pair of its colour and its text.      *)
(***************************************************************************)
\* export const TARGET_LANGUAGES = DEFAULT_TARGET_LANGUAGES
TARGET_LANGUAGES == DEFAULT_TARGET_LANGUAGES

\* Number.MAX_SAFE_INTEGER is 2^53 - 1; the largest integer of the model
\* checker stands for it: the comparator uses of it only that it exceeds every
\* index of the list and that its difference with itself is 0
MAX_SAFE_INTEGER == 2147483647

green(text) == [color |-> "green", text |-> text]
red(text) == [color |-> "red", text |-> text]

\* FormatterOptions, or nothing
FormatterOptions(showErrors, engineName) == [t |-> "options", showErrors |-> showErrors, engineName |-> engineName]
OptionOf(options, key) == IF options = Undefined THEN Undefined ELSE options[key]

\* the characters of [\w-]
WordCharacters ==
    UNION {{SubSeq(alphabet, i, i) : i \in 1..Len(alphabet)} :
              alphabet \in {UpperCaseLetters, LowerCaseLetters, "0123456789_-"}}

\* the length of what /^\[[\w-]+\]\s*/ matches up to and including "]", 0 when it
\* does not match
EnginePrefixLength(message) ==
    IF /\ StartsWith(message, "[")
       /\ \E i \in 3..Len(message) :
             /\ SubSeq(message, i, i) = "]"
             /\ \A j \in 2..(i - 1) : SubSeq(message, j, j) \in WordCharacters
    THEN CHOOSE i \in 3..Len(message) :
            /\ SubSeq(message, i, i) = "]"
            /\ \A j \in 2..(i - 1) : SubSeq(message, j, j) \in WordCharacters
    ELSE 0

\* ResultFormatter.normalizeErrorMessage
normalizeErrorMessage(message, engineName) ==
    LET n == EnginePrefixLength(message)
        normalized == IF n = 0 THEN message ELSE TrimStart(SubSeq(message, n + 1, Len(message)))
    IN IF Truthy(engineName) THEN "[" \o engineName.s \o "] " \o normalized ELSE normalized

\* orderMap.get(code) ?? Number.MAX_SAFE_INTEGER (indices are counted from 0)
OrderOf(code) ==
    IF \E i \in 1..Len(TARGET_LANGUAGES) : TARGET_LANGUAGES[i].code = code
    THEN (CHOOSE i \in 1..Len(TARGET_LANGUAGES) :
             /\ TARGET_LANGUAGES[i].code = code
             /\ \A j \in (i + 1)..Len(TARGET_LANGUAGES) : TARGET_LANGUAGES[j].code # code) - 1
    ELSE MAX_SAFE_INTEGER

\* the comparator of sortByLanguageOrder
CompareByOrder(a, b) == OrderOf(a.targetLanguage) - OrderOf(b.targetLanguage)

\* Array.prototype.sort is stable: an element is placed after every element
\* already placed that does not compare greater than it
RECURSIVE InsertByOrder(_, _)
InsertByOrder(sorted, x) ==
    IF sorted = <<>> THEN <<x>>
    ELSE IF CompareByOrder(Head(sorted), x) > 0 THEN <<x>> \o sorted
    ELSE <<Head(sorted)>> \o InsertByOrder(Tail(sorted), x)

RECURSIVE StableSort(_)
StableSort(a) == IF a = <<>> THEN <<>> ELSE InsertByOrder(StableSort(SubSeq(a, 1, Len(a) - 1)), a[Len(a)])

\* a sort that takes a code that is not listed for the first of the list
sortByLanguageOrderUnknownFirst(results0) ==
    LET key(r) == IF \E i \in 1..Len(DEFAULT_TARGET_LANGUAGES) : DEFAULT_TARGET_LANGUAGES[i].code = r.targetLanguage
                  THEN CHOOSE i \in 1..Len(DEFAULT_TARGET_LANGUAGES) :
                          DEFAULT_TARGET_LANGUAGES[i].code = r.targetLanguage
                  ELSE 0
        n == Len(results0)
        place(p) == Cardinality({q \in 1..n : \/ key(results0[q]) < key(results0[p])
                                              \/ key(results0[q]) = key(results0[p]) /\ q <= p})
    IN [returned |-> [k \in 1..n |-> results0[CHOOSE p \in 1..n : place(p) = k]],
        results |-> results0]

\* ResultFormatter.sortByLanguageOrder: the array returned, a sorted copy,
\* and the argument array as the call leaves it
sortByLanguageOrder(results0) == [returned |-> StableSort(results0), results |-> results0]

\* the callback of sortedResults.map(...) in format
FormatLine(result, options) ==
    LET showErrors == OptionOf(options, "showErrors") # Bool(FALSE)
        engineName == OptionOf(options, "engineName")
    IN IF result.success
       THEN LET prefix == IF Truthy(engineName) THEN "[" \o engineName.s \o "] " ELSE ""
            IN green(prefix \o result.languageName \o ": " \o result.translatedText)
       ELSE LET errorMsg == normalizeErrorMessage(
                                IF "error" \in DOMAIN result /\ result.error # "" THEN result.error
                                ELSE "FanYiShiBai", engineName)
            IN IF showErrors THEN red(result.languageName \o ": [CuoWu] " \o errorMsg)
               ELSE red(result.languageName \o ": [CuoWu]")

\* ResultFormatter.format
format(results0, options) ==
    LET sortedResults == sortByLanguageOrder(results0).returned
    IN [i \in 1..Len(sortedResults) |-> FormatLine(sortedResults[i], options)]

(***************************************************************************)
(* Inputs the exploration draws from.                                      *)
(***************************************************************************)
Slots == 1..MaxTargets

\* the `retries` option: absent, or a number
RetryOptions == {Undefined} \cup {Num(n) : n \in (-1)..MaxRetries}

\* the `retries` the client of a batch was constructed with
BatchClientRetries == {Num(n) : n \in 1..MaxBatchRetries}

\* the service's configured language list, and the codes asked for
\* ("xx" is not configured)
ConfiguredLanguages == <<[code |-> "en", name |-> "English"], [code |-> "ja", name |-> "Japanese"]>>
LangCodes == {"en", "xx"}

RECURSIVE SeqsUpTo(_, _)
SeqsUpTo(S, n) ==
    IF n = 0 THEN {<<>>}
    ELSE LET shorter == SeqsUpTo(S, n - 1) IN
         shorter \cup {Append(q, x) : q \in {r \in shorter : Len(r) = n - 1}, x \in S}

\* the targetLanguages argument of batchTranslate: omitted, or a list
BatchArguments == {Undefined} \cup {Arr(l) : l \in SeqsUpTo(LangCodes, MaxTargets)}

\* fragments of a provider response (entries of data[0])
Fragments ==
    { Arr(<<Str("Hello"), Str("orig")>>),
      Arr(<<Str(" ")>>),
      Arr(<<Str("")>>),
      Arr(<<Null, Null>>),
      Arr(<<>>),
      Null,
      Str("x"),
      Arr(<<Arr(<<>>)>>),
      Arr(<<Num(0)>>),
      Arr(<<Bool(FALSE)>>) }

GoodBody == Arr(<<Arr(<<Arr(<<Str("Hello"), Str("orig")>>), Arr(<<Str(" ")>>)>>), Null, Str("ko")>>)
EmptyBody == Arr(<<Arr(<<Arr(<<Str("")>>), Arr(<<Null, Null>>)>>), Null, Str("ko")>>)

\* response.data of a 2xx response, as the engine may receive it
EngineDatas ==
    {ParsedData(Arr(<<Arr(f), Null, Str("ko")>>)) : f \in SeqsUpTo(Fragments, MaxFragments)}
    \cup {ParsedData(v) : v \in {Obj, Null, Num(1), Arr(<<>>), Arr(<<Null>>), Arr(<<Str("x")>>),
                                   Arr(<<Arr(<<Arr(<<Str("Hello")>>)>>)>>)}}
    \cup {StringData(RawText("")), StringData(RawText("<html>")), StringData(JSONStringify(GoodBody))}

\* response.data given to a direct get/post
DirectDatas == {StringData(RawText("<html>")), ParsedData(Obj)}

\* the alphabet of a batch target's attempts
BatchDatas == {ParsedData(GoodBody), ParsedData(EmptyBody)}
BatchFailures == {HttpFailure(429), HttpFailure(404)}

\* values a substituted transport may throw at the engine
ForeignThrows == {Error("boom"), NonError}

\* engine identifiers: the available one, and unknown ones
EngineIds == {"google", "bing", "Google", ""}

\* the first argument of new TranslationService(...): nothing, an HTTPClient,
\* or an engine identifier
ConstructorArguments == {Undefined, Obj} \cup {Str(id) : id \in EngineIds}

\* the --engine option as commander hands it to main ('google' when not given)
EngineOptions == {Str(id) : id \in EngineIds}

\* TRANSLATE_ENGINE, and the engine line of the configuration file
EnvEngines == {Undefined, Str("GOOGLE"), Str("bing")}
FileEngines == {Null, Str("google"), Str("bing")}

\* the positional arguments of the command line
SourceLanguages == {"ko", "KO", ""}
Texts == {"annyeong", " ", ""}

\* lines of a configuration file: entries with each delimiter, padded, with a
\* second delimiter, malformed, with an empty field, a comment, an engine
\* line, an empty line
ConfigLines ==
    {"en:English", " ja = Japanese ", "xx,Xish:X", "a:b:c", "de", "fr:", "# zh:Chinese", "Engine = Google", ""}


\* the --config option and TRANSLATE_CONFIG_PATH
ConfigPaths == {Undefined, Str("cli.conf")}
EnvPaths == {Undefined, Str("env.conf")}

\* what may be at one place: nothing, a directory, a file without entries, a
\* file with entries
Placed(lines) == {Absent, Unreadable, TextFile(<<"# none">>), TextFile(lines)}

\* file systems with a file, told apart by its entries, at any of the three
\* places; and file systems with any content at the default place
ConfigFilePlaces == {"cli.conf", "env.conf", DEFAULT_CONFIG_FILENAME}

\* file systems with a file, told apart by its entries, at any of the three
\* places
PlacedFileSystems ==
    {[path \in ConfigFilePlaces |-> CASE path = "cli.conf" -> a [] path = "env.conf" -> b [] OTHER -> c] :
       a \in Placed(<<"de:German">>), b \in Placed(<<"fr:French", "engine:bing">>),
       c \in Placed(<<"en:English", "ja:Japanese">>)}

\* file systems with any content at the default place and nothing elsewhere
\* (content.split('\n') yields one line at least)
WrittenFileSystems ==
    {[path \in ConfigFilePlaces |-> IF path = DEFAULT_CONFIG_FILENAME THEN TextFile(lines) ELSE Absent] :
       lines \in SeqsUpTo(ConfigLines, MaxLines) \ {<<>>}}

\* the calls of loadConfig explored: every way of naming a place over the
\* placed file systems, and the default place over the written ones
ConfigCalls ==
    [fs : PlacedFileSystems, configPath : ConfigPaths, engineType : {Undefined, Str("bing")},
     envPath : EnvPaths, envEngine : {Undefined, Str("GOOGLE")}]
    \cup [fs : WrittenFileSystems, configPath : {Undefined}, engineType : {Undefined, Str("bing")},
          envPath : {Undefined}, envEngine : {Undefined}]

\* results handed to format: listed codes (en is the first of the list, ja
\* the ninth), codes that are not listed, a code twice, successes and failures
FormattableResults ==
    { [targetLanguage |-> "ja", languageName |-> "Japanese", translatedText |-> "Konnichiwa", success |-> TRUE],
      [targetLanguage |-> "en", languageName |-> "English", translatedText |-> "Hello", success |-> TRUE],
      [targetLanguage |-> "en", languageName |-> "English", translatedText |-> "", success |-> FALSE,
       error |-> "[Google] QingQiuGuoYuPinFan, QingShaoHouChongShi"],
      [targetLanguage |-> "xx", languageName |-> "xx", translatedText |-> "", success |-> FALSE,
       error |-> "FanYiShiBai"],
      [targetLanguage |-> "yy", languageName |-> "yy", translatedText |-> "Salut", success |-> TRUE] }

FormatResults == SeqsUpTo(FormattableResults, MaxTargets)

FormatOptions ==
    {Undefined, FormatterOptions(Undefined, Str("google")), FormatterOptions(Bool(FALSE), Undefined)}

(***************************************************************************)
(* State.                                                                  *)
(***************************************************************************)
VARIABLES
    argument,         \* the argument of the public operation in progress
    service,          \* how the latest new TranslationService(...) completed
    cli,              \* the command line process: none, running, exited (code, stderr)
    config,           \* the latest call of loadConfig: its environment, arguments and outcome
    formatted,        \* the latest call of ResultFormatter.format: its arguments and outcome
    optRetries,       \* the retries option the HTTPClient was constructed with
    defaultRetries,   \* HTTPClient.defaultRetries
    defaultTimeout,   \* HTTPClient.defaultTimeout
    targetLanguages,  \* TranslationService.targetLanguages
    op,               \* the public operation in progress: idle, get, post, translate, batch, new, cli
    call,             \* per slot, the frame of requestWithRetry: pc, options (retries), maxRetries, attempt, lastError
    made,             \* per slot, network attempts issued so far (history)
    waits,            \* per slot, the backoff delays slept so far (history)
    outcome,          \* per slot, how get/post completed (history once the caller has resumed)
    languages,        \* the target codes of the operation, one per slot
    promises,         \* per slot, the promise of TranslationService.translate
    batchPc,          \* batchTranslate: none, awaiting, returned
    results           \* what batchTranslate returned

vars == <<argument, service, cli, config, formatted, optRetries, defaultRetries, defaultTimeout, targetLanguages, op, call, made, waits, outcome, languages, promises, batchPc, results>>

NoFrame == [pc |-> "none", options |-> Undefined, maxRetries |-> 0, attempt |-> 0, lastError |-> Undefined]
NotCompleted == [type |-> "pending"]

NoProcess == [pc |-> "none"]
ExitedWith(code, stderr, stdout) == [pc |-> "exited", code |-> code, stderr |-> stderr, stdout |-> stdout]
Running == [pc |-> "running"]
Exited(code, stderr) == [pc |-> "exited", code |-> code, stderr |-> stderr]

\* an HTTPClient constructed with some retries option, and a
\* TranslationService constructed around it with the legacy signature
Init ==
    /\ argument = Undefined
    /\ service = NewTranslationService(Obj, ConfiguredLanguages)
    /\ cli = NoProcess
    /\ config = [pc |-> "none"]
    /\ formatted = [pc |-> "none"]
    /\ optRetries \in RetryOptions
    /\ defaultRetries = ConstructDefaultRetries(optRetries)
    /\ defaultTimeout = ConstructDefaultTimeout(Undefined)
    /\ targetLanguages = service.value.targetLanguages
    /\ op = "idle"
    /\ call = [c \in Slots |-> NoFrame]
    /\ made = [c \in Slots |-> 0]
    /\ waits = [c \in Slots |-> <<>>]
    /\ outcome = [c \in Slots |-> NotCompleted]
    /\ languages = <<>>
    /\ promises = [c \in Slots |-> Pending]
    /\ batchPc = "none"
    /\ results = <<>>

\* the TranslationRequest of slot c
RequestOf(langs, c) == [sourceLanguage |-> "ko", targetLanguage |-> langs[c], text |-> "annyeong"]

(***************************************************************************)
(* requestWithRetry, step by step.                                         *)
(***************************************************************************)
\* the frame when the call is made: the loop is entered iff 0 <= maxRetries
FrameAtCall(options, maxRetries) ==
    [pc |-> IF 0 <= maxRetries THEN "request" ELSE "done",
     options |-> options, maxRetries |-> maxRetries, attempt |-> 0, lastError |-> Undefined]

\* the frame of a call made through the engine, once it has completed
ReleasedFrame == [NoFrame EXCEPT !.pc = "done"]

\* how the promise of TranslationService.translate settles once
\* httpClient.get has completed with `got`
TranslatePromise(configured, request, got) ==
    SettleWith(ServiceTranslate(configured, request, EngineTranslate(request, got)))

\* fail-fast completion: a target whose transport threw aborts the targets
\* still in flight
CompleteFailFast(c, f, done) ==
    LET abort(d) == /\ op = "batch" /\ done.type = "throw" /\ d # c
                    /\ d <= Len(languages) /\ promises[d] = Pending
    IN /\ outcome' = [outcome EXCEPT ![c] = done]
       /\ IF op \in {"get", "post"}
          THEN /\ call' = [call EXCEPT ![c] = [f EXCEPT !.pc = "done"]]
               /\ UNCHANGED <<made, waits, promises>>
          ELSE /\ call' = [d \in Slots |-> IF d = c \/ abort(d) THEN ReleasedFrame ELSE call[d]]
               /\ made' = [d \in Slots |-> IF d = c \/ abort(d) THEN 0 ELSE made[d]]
               /\ waits' = [d \in Slots |-> IF d = c \/ abort(d) THEN <<>> ELSE waits[d]]
               /\ promises' = [d \in Slots |->
                                 IF d = c THEN TranslatePromise(targetLanguages, RequestOf(languages, c), done)
                                 ELSE IF abort(d) THEN Rejected(Error("aborted"))
                                 ELSE promises[d]]

\* a loop that does not leave on success: a returned body is followed by the
\* backoff and the next attempt
CompleteThenBackoff(c, f, done) ==
    /\ outcome' = [outcome EXCEPT ![c] = done]
    /\ IF op \in {"get", "post"}
       THEN /\ call' = [call EXCEPT ![c] = IF done.type = "return" /\ f.attempt < f.maxRetries
                                           THEN [f EXCEPT !.pc = "sleep"]
                                           ELSE [f EXCEPT !.pc = "done"]]
            /\ UNCHANGED <<made, waits, promises>>
       ELSE /\ call' = [call EXCEPT ![c] = [NoFrame EXCEPT !.pc = "done"]]
            /\ made' = [made EXCEPT ![c] = 0]
            /\ waits' = [waits EXCEPT ![c] = <<>>]
            /\ promises' = [promises EXCEPT ![c] =
                  SettleWith(ServiceTranslate(targetLanguages, RequestOf(languages, c),
                                              EngineTranslate(RequestOf(languages, c), done)))]

\* a completion through a buffer the targets share: the target that
\* completes after a sibling hands out what the sibling left there
CompleteSharedBuffer(c, f, done) ==
    LET earlier == {d \in Slots : d # c /\ promises[d].status = "fulfilled"}
        own == SettleWith(ServiceTranslate(targetLanguages, RequestOf(languages, c),
                                           EngineTranslate(RequestOf(languages, c), done)))
    IN /\ outcome' = [outcome EXCEPT ![c] = done]
       /\ IF op \in {"get", "post"}
          THEN /\ call' = [call EXCEPT ![c] = [f EXCEPT !.pc = "done"]]
               /\ UNCHANGED <<made, waits, promises>>
          ELSE /\ call' = [call EXCEPT ![c] = [NoFrame EXCEPT !.pc = "done"]]
               /\ made' = [made EXCEPT ![c] = 0]
               /\ waits' = [waits EXCEPT ![c] = <<>>]
               /\ promises' = [promises EXCEPT ![c] =
                                 IF earlier # {}
                                 THEN promises[CHOOSE d \in earlier : \A e \in earlier : d <= e]
                                 ELSE own]

\* requestWithRetry of slot c completes with `done` (frame f at that point);
\* a direct get/post hands it to its caller, a call made by the engine
\* resumes GoogleTranslationEngine.translate and then
\* TranslationService.translate.  These continuations are microtasks: they
\* run to the settling of the translate promise before any other response
\* or timer is handled, hence one step.
Complete(c, f, done) ==
    /\ outcome' = [outcome EXCEPT ![c] = done]
    /\ IF op \in {"get", "post"}
       THEN /\ call' = [call EXCEPT ![c] = [f EXCEPT !.pc = "done"]]
            /\ UNCHANGED <<made, waits, promises>>
       ELSE /\ call' = [call EXCEPT ![c] = ReleasedFrame]
            /\ made' = [made EXCEPT ![c] = 0]
            /\ waits' = [waits EXCEPT ![c] = <<>>]
            /\ promises' = [promises EXCEPT ![c] = TranslatePromise(targetLanguages, RequestOf(languages, c), done)]

DatasOf(o) == IF o = "batch" THEN BatchDatas ELSE IF o = "translate" THEN EngineDatas ELSE DirectDatas
FailuresOf(o) == IF o = "batch" THEN BatchFailures ELSE RawFailures

\* the attempt in flight gets a 2xx response: the call returns its body
AttemptSucceeds(c) ==
    /\ call[c].pc = "request"
    /\ \E data \in DatasOf(op) : Complete(c, call[c], Return(ResponseText(data)))
    /\ UNCHANGED <<argument, service, cli, config, formatted, optRetries, defaultRetries, defaultTimeout, targetLanguages, op, languages, batchPc, results>>

\* the attempt in flight fails: back off and retry, or throw the converted error
AttemptFails(c) ==
    /\ call[c].pc = "request"
    /\ \E error \in FailuresOf(op) :
          LET f == [call[c] EXCEPT !.lastError = error] IN
          IF RetryAfterFailure(f.attempt, f.maxRetries, error)
          THEN /\ call' = [call EXCEPT ![c] = [f EXCEPT !.pc = "sleep"]]
               /\ waits' = [waits EXCEPT ![c] = Append(@, BackoffDelay(f.attempt))]
               /\ UNCHANGED <<made, outcome, promises>>
          ELSE Complete(c, f, Throw(convertError(f.lastError)))
    /\ UNCHANGED <<argument, service, cli, config, formatted, optRetries, defaultRetries, defaultTimeout, targetLanguages, op, languages, batchPc, results>>

\* a retry counter kept on the client instead of in the frame: the timer of
\* one call advances the counter every call in flight reads
SleepDoneSharedCounter(c) ==
    /\ call[c].pc = "sleep"
    /\ call' = [d \in Slots |->
                  IF d = c THEN [call[d] EXCEPT !.pc = "request", !.attempt = @ + 1]
                  ELSE IF call[d].pc \in {"request", "sleep"} THEN [call[d] EXCEPT !.attempt = @ + 1]
                  ELSE call[d]]
    /\ made' = [made EXCEPT ![c] = @ + 1]
    /\ UNCHANGED <<argument, service, cli, config, formatted, optRetries, defaultRetries, defaultTimeout, targetLanguages, op, waits, outcome, languages, promises, batchPc, results>>

\* the backoff timer fires: attempt++, the next attempt is issued
SleepDone(c) ==
    /\ call[c].pc = "sleep"
    /\ call' = [call EXCEPT ![c] = [@ EXCEPT !.pc = "request", !.attempt = @ + 1]]
    /\ made' = [made EXCEPT ![c] = @ + 1]
    /\ UNCHANGED <<argument, service, cli, config, formatted, optRetries, defaultRetries, defaultTimeout, targetLanguages, op, waits, outcome, languages, promises, batchPc, results>>

(***************************************************************************)
(* The public operations.                                                  *)
(***************************************************************************)
\* get/post(url, ..., {retries: options}) on slot 1
DirectCall(method, options) ==
    LET maxRetries == EffectiveMaxRetries(options, defaultRetries)
        f == FrameAtCall(options, maxRetries)
    IN /\ op = "idle"
       /\ op' = method
       /\ argument' = options
       /\ call' = [call EXCEPT ![1] = f]
       /\ made' = [made EXCEPT ![1] = IF f.pc = "request" THEN 1 ELSE 0]
       /\ outcome' = [outcome EXCEPT ![1] = IF f.pc = "request" THEN @ ELSE Throw(convertError(f.lastError))]
       /\ UNCHANGED <<service, cli, config, formatted, optRetries, defaultRetries, defaultTimeout, targetLanguages, waits, languages, promises, batchPc, results>>

Get(options) == DirectCall("get", options)
Post(options) == DirectCall("post", options)

\* a dispatch that starts the first target only and leaves the others to be
\* started after it
DispatchSequential(langs, n, dflt, configured) ==
    LET f == FrameAtCall(Undefined, EffectiveMaxRetries(Undefined, dflt)) IN
    /\ call' = [call EXCEPT ![1] = IF n >= 1 THEN f ELSE @]
    /\ made' = [made EXCEPT ![1] = IF n >= 1 THEN 1 ELSE @]
    /\ UNCHANGED <<promises, outcome>>

\* the slots 1..n start translate(request): each runs synchronously up to
\* its first await, the network attempt of httpClient.get(url); dflt is the
\* client's defaultRetries, configured the service's language list
DispatchWith(langs, n, dflt, configured) ==
    LET maxRetries == EffectiveMaxRetries(Undefined, dflt)
        f == FrameAtCall(Undefined, maxRetries)
        started == f.pc = "request"
    IN /\ call' = [c \in Slots |-> IF c <= n THEN (IF started THEN f ELSE ReleasedFrame) ELSE call[c]]
       /\ made' = [c \in Slots |-> IF c <= n /\ started THEN 1 ELSE made[c]]
       /\ promises' = [c \in Slots |->
                         IF c <= n /\ ~started
                         THEN TranslatePromise(configured, RequestOf(langs, c), Throw(convertError(f.lastError)))
                         ELSE promises[c]]
       /\ outcome' = [c \in Slots |-> IF c <= n /\ ~started THEN Throw(convertError(f.lastError)) ELSE outcome[c]]

\* the dispatch through the service and client of the current state
Dispatch(langs, n) == DispatchWith(langs, n, defaultRetries, targetLanguages)

\* TranslationService.translate({sourceLanguage, targetLanguage, text})
Translate(targetLanguage) ==
    /\ op = "idle"
    /\ op' = "translate"
    /\ argument' = Str(targetLanguage)
    /\ languages' = <<targetLanguage>>
    /\ Dispatch(<<targetLanguage>>, 1)
    /\ UNCHANGED <<service, cli, config, formatted, optRetries, defaultRetries, defaultTimeout, targetLanguages, waits, batchPc, results>>

\* TranslationService.batchTranslate(sourceLanguage, text, targetArg), up to
\* await Promise.allSettled(...)
BatchTranslate(targetArg) ==
    LET langs == BatchLanguages(targetArg, targetLanguages) IN
    /\ op = "idle"
    /\ optRetries \in BatchClientRetries
    /\ op' = "batch"
    /\ argument' = targetArg
    /\ languages' = langs
    /\ Dispatch(langs, Len(langs))
    /\ batchPc' = "awaiting"
    /\ UNCHANGED <<service, cli, config, formatted, optRetries, defaultRetries, defaultTimeout, targetLanguages, waits, results>>

\* new TranslationService(first, client, undefined, languages) around the
\* client of the current state: the constructor returns the service or throws
\* what the factory threw; it issues no request
Construct(first) ==
    /\ op = "idle"
    /\ op' = "new"
    /\ argument' = first
    /\ service' = NewTranslationService(first, ConfiguredLanguages)
    /\ UNCHANGED <<cli, config, formatted, optRetries, defaultRetries, defaultTimeout, targetLanguages, call, made, waits, outcome, languages, promises, batchPc, results>>

\* ResultFormatter.formatError, for a message that carries no [engine] prefix
formatError(message, engineName) == "CuoWu: [" \o engineName \o "] " \o message

\* main's action callback, up to its await of batchTranslate: the engine
\* check, loadConfig, validateInput, the construction of the service (with a
\* client of its own, constructed without a retries option) and the dispatch
\* of the batch over the configured codes; process.exit(1) on a rejected
\* engine option, on invalid input and on anything thrown
Main(engine, envEngine, fileEngine, sourceLanguage, text) ==
    LET engineType == loadEngineType(engine, envEngine, fileEngine)
        errors == validateInput(sourceLanguage, text)
        constructed == NewTranslationService(Str(engineType), ConfiguredLanguages)
        exits(stderr) == /\ op' = "cli"
                         /\ cli' = Exited(1, stderr)
                         /\ UNCHANGED <<service, config, formatted, optRetries, defaultRetries, defaultTimeout, targetLanguages, call, made, waits,
                                        outcome, languages, promises, batchPc, results>>
    IN /\ op = "idle"
       /\ argument' = engine
       /\ IF ~EngineOptionAccepted(engine) THEN exits(InvalidEngineLines(engine))
          ELSE IF Len(errors) # 0
          THEN exits(<<"ShuRuYanZhengShiBai:">> \o [i \in 1..Len(errors) |-> "  - " \o errors[i]])
          ELSE IF constructed.type = "throw"
          THEN exits(<<formatError(constructed.value.message, engineType)>>)
          ELSE LET languages0 == constructed.value.targetLanguages
                   targetLanguageCodes == [i \in 1..Len(languages0) |-> languages0[i].code]
                   langs == BatchLanguages(Arr(targetLanguageCodes), languages0)
               IN /\ op' = "batch"
                  /\ cli' = Running
                  /\ service' = constructed
                  /\ optRetries' = Undefined
                  /\ defaultRetries' = ConstructDefaultRetries(Undefined)
                  /\ defaultTimeout' = ConstructDefaultTimeout(Undefined)
                  /\ targetLanguages' = languages0
                  /\ languages' = langs
                  /\ DispatchWith(langs, Len(langs), ConstructDefaultRetries(Undefined), languages0)
                  /\ batchPc' = "awaiting"
                  /\ UNCHANGED <<config, formatted, waits, results>>

\* loadConfig(configPath, engineType) called in the environment (fs, envPath,
\* envEngine); the loader involves no HTTPClient, so it is explored next to
\* the default one only
LoadConfig ==
    /\ op = "idle"
    /\ optRetries = Undefined
    /\ op' = "config"
    /\ \E e \in ConfigCalls :
         /\ argument' = e.configPath
         /\ config' = [pc |-> "loaded", fs |-> e.fs, configPath |-> e.configPath,
                       engineType |-> e.engineType, envPath |-> e.envPath, envEngine |-> e.envEngine,
                       returned |-> loadConfig(e.fs, e.configPath, e.engineType, e.envPath, e.envEngine)]
    /\ UNCHANGED <<service, cli, formatted, optRetries, defaultRetries, defaultTimeout, targetLanguages, call,
                   made, waits, outcome, languages, promises, batchPc, results>>

\* new ResultFormatter().format(results, options)
Format ==
    /\ op = "idle"
    /\ optRetries = Undefined
    /\ op' = "format"
    /\ \E results0 \in FormatResults, options \in FormatOptions :
         /\ argument' = options
         /\ formatted' = [pc |-> "formatted", results |-> results0, options |-> options,
                          after |-> sortByLanguageOrder(results0).results,
                          returned |-> format(results0, options)]
    /\ UNCHANGED <<service, cli, config, optRetries, defaultRetries, defaultTimeout, targetLanguages, call,
                   made, waits, outcome, languages, promises, batchPc, results>>

\* a transport other than HTTPClient throws a foreign value at the engine
TransportThrows(c) ==
    /\ op = "translate"
    /\ call[c].pc = "request"
    /\ \E e \in ForeignThrows : Complete(c, call[c], Throw(e))
    /\ UNCHANGED <<argument, service, cli, config, formatted, optRetries, defaultRetries, defaultTimeout, targetLanguages, op, languages, batchPc, results>>

\* a per-target promise rejects (the case batchTranslate's else branch handles)
PromiseRejects(c) ==
    /\ op = "batch"
    /\ c <= Len(languages)
    /\ promises[c] = Pending
    /\ promises' = [promises EXCEPT ![c] = Rejected(Error("rejected"))]
    /\ call' = [call EXCEPT ![c] = ReleasedFrame]
    /\ made' = [made EXCEPT ![c] = 0]
    /\ waits' = [waits EXCEPT ![c] = <<>>]
    /\ UNCHANGED <<argument, service, cli, config, formatted, optRetries, defaultRetries, defaultTimeout, targetLanguages, op, outcome, languages, batchPc, results>>

\* batchTranslate resumes after Promise.allSettled and maps the entries; when
\* main awaited it (run without --output), main formats the results with
\* the engine name, writes a heading, the formatted output and an empty
\* line with console.log, and exits with code 0
BatchReturn ==
    LET n == Len(languages)
        settled == [i \in 1..n |-> SettledEntry(promises[i], i)]
    IN /\ batchPc = "awaiting"
       /\ AllSettled(promises, n)
       /\ results' = [i \in 1..n |-> CollectResult(settled, settled[i], languages, targetLanguages)]
       /\ batchPc' = "returned"
       /\ cli' = IF cli = Running
                 THEN ExitedWith(0, <<>>, <<"\nFanYiJieGuo:\n",
                                            format(results', FormatterOptions(Undefined, Str(service.value.engine))),
                                            "">>)
                 ELSE cli
       /\ UNCHANGED <<argument, service, config, formatted, optRetries, defaultRetries, defaultTimeout, targetLanguages, op, call, made, waits, outcome, languages, promises>>

Next ==
    \/ \E options \in RetryOptions : Get(options)
    \/ \E options \in RetryOptions : Post(options)
    \/ \E targetLanguage \in LangCodes : Translate(targetLanguage)
    \/ \E targetArg \in BatchArguments : BatchTranslate(targetArg)
    \/ \E first \in ConstructorArguments : Construct(first)
    \/ \E engine \in EngineOptions, envEngine \in EnvEngines, fileEngine \in FileEngines,
          sourceLanguage \in SourceLanguages, text \in Texts :
            Main(engine, envEngine, fileEngine, sourceLanguage, text)
    \/ Format
    \/ LoadConfig
    \/ \E c \in Slots : AttemptSucceeds(c)
    \/ \E c \in Slots : AttemptFails(c)
    \/ \E c \in Slots : SleepDone(c)
    \/ \E c \in Slots : TransportThrows(c)
    \/ \E c \in Slots : PromiseRejects(c)
    \/ BatchReturn

Spec == Init /\ [][Next]_vars

\* what termination is conditional on, and the scheduling the runtime
\* provides: no network attempt stays in flight for ever (it is answered, it
\* fails, or it hits the timeout of the request), a backoff timer that was
\* set fires, and the continuation of a settled Promise.allSettled is run
Fairness ==
    /\ \A c \in Slots : []<>(call[c].pc # "request")
    /\ WF_vars(\E c \in Slots : SleepDone(c))
    /\ WF_vars(BatchReturn)

LiveSpec == Init /\ [][Next]_vars /\ Fairness

(***************************************************************************)
(* Properties.                                                             *)
(***************************************************************************)
\* every TranslationResult in the state: the values of the fulfilled
\* promises and the entries batchTranslate returned
AllResults ==
    {promises[c].value : c \in {d \in Slots : promises[d].status = "fulfilled"}}
    \cup {results[i] : i \in 1..Len(results)}

\* the retries a call was configured with: the per-call option when given,
\* else the constructor option when given, else the documented default
ConfiguredRetries(c) ==
    IF call[c].options # Undefined THEN call[c].options.n
    ELSE IF optRetries # Undefined THEN optRetries.n
    ELSE DefaultRetries

\* C1: batchTranslate returns exactly one result per input code, and the
\* result at position i carries the i-th input code, whatever the order in
\* which the translations completed.
C1_BatchKeepsInputOrder ==
    batchPc = "returned" =>
        /\ Len(results) = Len(languages)
        /\ \A i \in 1..Len(languages) : results[i].targetLanguage = languages[i]

\* a returned batch of three with a duplicate code: the promises of the first
\* two targets ("en", "xx") rejected, the third succeeded
C1_Witness ==
    /\ batchPc = "returned"
    /\ languages = <<"en", "xx", "en">>
    /\ promises[1].status = "rejected"
    /\ promises[2].status = "rejected"
    /\ results[3].success

\* C2: batchTranslate is a join barrier: it has returned only if every
\* dispatched per-target translation has settled.
C2_JoinBarrier ==
    batchPc = "returned" => \A i \in 1..Len(languages) : promises[i].status # "pending"

C2_Witness ==
    /\ batchPc = "returned"
    /\ Len(languages) = 3
    /\ promises[1].status = "fulfilled"
    /\ promises[2].status = "rejected"
    /\ promises[3].status = "fulfilled"

\* a step of the batch in which target c moves
TargetMoves(c) == call'[c] # call[c] \/ promises'[c] # promises[c]

\* C3: per-target failure isolation.  A step of one target of a batch leaves
\* every sibling's request and promise as they were; a target whose transport
\* failed is a fulfilled success=false entry, and a target whose transport
\* delivered the good body is a success with its text, whatever its siblings
\* did.
C3_FailureIsolation ==
    /\ [][\A c \in Slots : (batchPc = "awaiting" /\ TargetMoves(c)) =>
              \A d \in Slots \ {c} : call'[d] = call[d] /\ promises'[d] = promises[d]]_vars
    /\ [](op = "batch" =>
             \A c \in 1..Len(languages) :
                 /\ outcome[c].type = "throw" =>
                        promises[c].status = "fulfilled" /\ ~promises[c].value.success
                 /\ outcome[c] = Return(JSONStringify(GoodBody)) =>
                        /\ promises[c].status = "fulfilled"
                        /\ promises[c].value.success
                        /\ promises[c].value.translatedText = "Hello ")

\* target 1 failed with 404 on its first attempt, target 2 exhausted its
\* retries on 429, target 3 succeeded
C3_Witness ==
    /\ batchPc = "returned"
    /\ Len(languages) = 3
    /\ outcome[1] = Throw(convertError(HttpFailure(404)))
    /\ outcome[2] = Throw(convertError(HttpFailure(429)))
    /\ results[3].success

\* C4: per-request failures are never raised.  However the transport
\* completed (any body, an HTTPError, another Error, a non-Error value), the
\* promise of translate is fulfilled with a result; and a returned batch
\* holds one entry per requested target.
C4_NeverRaises ==
    /\ \A c \in Slots : outcome[c].type \in {"return", "throw"} /\ op \in {"translate", "batch"} =>
           promises[c].status = "fulfilled"
    /\ batchPc = "returned" => Len(results) = Len(languages)

C4_Witness ==
    /\ op = "translate"
    /\ outcome[1] = Throw(NonError)
    /\ promises[1].status = "fulfilled"
    /\ ~promises[1].value.success

\* C5: every result with success=true has a non-empty translatedText and no
\* error field.
C5_SuccessHasText ==
    \A r \in AllResults : r.success => r.translatedText # "" /\ "error" \notin DOMAIN r

\* C6: every result with success=false has translatedText "" and an error
\* that is present and non-empty, whether the adapter produced it or
\* batchTranslate synthesized it.
C6_FailureHasError ==
    \A r \in AllResults : ~r.success =>
        /\ r.translatedText = ""
        /\ "error" \in DOMAIN r
        /\ r.error # ""

\* a returned batch with a synthesized entry and an adapter failure
C6_Witness ==
    /\ batchPc = "returned"
    /\ Len(languages) >= 2
    /\ promises[1].status = "rejected"
    /\ ~results[1].success
    /\ promises[2].status = "fulfilled"
    /\ ~results[2].success

\* C7: the error of every result, when present, starts with the provider
\* name in brackets.
C7_ErrorHasProviderPrefix ==
    \A r \in AllResults : "error" \in DOMAIN r => StartsWith(r.error, "[Google] ")

\* C8: a call configured with retries R >= 0 (per call, else at construction,
\* else 3) makes at most R + 1 network attempts.
C8_AttemptsBoundedByRetries ==
    \A c \in Slots : ConfiguredRetries(c) >= 0 => made[c] <= ConfiguredRetries(c) + 1

\* the waits 2^k * 100 ms for k = 0 .. n-1
BackoffWaits(n) == [k \in 1..n |-> (2 ^ (k - 1)) * 100]

\* C9: a get/post configured with retries R >= 0 whose attempts all failed
\* with a retryable failure made exactly R + 1 attempts, waited 100, 200, 400,
\* ... ms between them, and raised the conversion of the last failure.
C9_BackoffSequence ==
    \A c \in Slots :
        (/\ op \in {"get", "post"}
         /\ outcome[c].type = "throw"
         /\ made[c] >= 1
         /\ isRetryableError(call[c].lastError)
         /\ ConfiguredRetries(c) >= 0)
        => /\ made[c] = ConfiguredRetries(c) + 1
           /\ waits[c] = BackoffWaits(ConfiguredRetries(c))
           /\ outcome[c] = Throw(convertError(call[c].lastError))

\* a step of a get/post call in which the attempt in flight fails
FailedAttempt(c) ==
    /\ op \in {"get", "post"}
    /\ call[c].pc = "request"
    /\ call'[c].pc = "sleep" \/ outcome'[c].type = "throw"

\* what follows a failed attempt: another attempt (after the backoff), or the
\* end of the call with the attempts made so far
AnotherAttemptFollows(c) == call'[c].pc = "sleep" /\ made'[c] = made[c]
CallEnds(c) == call'[c].pc = "done" /\ outcome'[c].type = "throw" /\ made'[c] = made[c]

\* retryable as the claim words it: no response received, or status >= 500,
\* or status 429
NoResponseOr5xxOr429(e) ==
    \/ e.response = Undefined
    \/ e.response # Undefined /\ (e.response.status >= 500 \/ e.response.status = 429)

\* C10 as stated: a failed attempt is followed by another one iff retry
\* budget remains and no response was received or the status is >= 500 or 429.
C10_RetryIffNoResponseOr5xxOr429 ==
    [][\A c \in Slots : FailedAttempt(c) =>
          /\ AnotherAttemptFollows(c) \/ CallEnds(c)
          /\ AnotherAttemptFollows(c) <=>
                (call[c].attempt < call[c].maxRetries /\ NoResponseOr5xxOr429(call'[c].lastError))]_vars

\* retryable as amended: a failure raised by axios for which no response was
\* received, or whose status is >= 500 or 429
AxiosNoResponseOr5xxOr429(e) == IsAxiosError(e) /\ NoResponseOr5xxOr429(e)

\* C10 amended: a failed attempt is followed by another one iff retry budget
\* remains and the failure is an axios failure with no response, a status
\* >= 500 or status 429; any other failure (another status, or a failure that
\* is not an axios error) ends the call right after that attempt.
C10_RetryIffAxiosTransient ==
    [][\A c \in Slots : FailedAttempt(c) =>
          /\ AnotherAttemptFollows(c) \/ CallEnds(c)
          /\ AnotherAttemptFollows(c) <=>
                (call[c].attempt < call[c].maxRetries /\ AxiosNoResponseOr5xxOr429(call'[c].lastError))]_vars

\* a get/post with budget left that ended after its first attempt on a 404
C10_Witness ==
    /\ op \in {"get", "post"}
    /\ call[1].pc = "done"
    /\ call[1].maxRetries >= 1
    /\ call[1].lastError = HttpFailure(404)
    /\ made[1] = 1
    /\ outcome[1].type = "throw"

\* the transport of target c delivered the good body / raised the error of an
\* HTTP 429 (its last attempt, and so every attempt before it, got 429)
DeliveredGoodBody(c) == outcome[c] = Return(JSONStringify(GoodBody))
RaisedTooManyRequests(c) == outcome[c] = Throw(HTTPError("QingQiuGuoYuPinFan, QingShaoHouChongShi", Num(429)))

\* C11: in a batch of three where one target's transport failed every attempt
\* with HTTP 429 and the other two succeeded, batchTranslate returns exactly
\* one success=false entry, at the failing target's position, whose error is
\* the too-many-requests message, and two success=true entries; a target
\* whose transport succeeded holds its successful result from that moment on,
\* whatever the failing target is doing.
C11_TooManyRequestsInBatch ==
    /\ op = "batch" =>
           \A d \in 1..Len(languages) : DeliveredGoodBody(d) =>
               /\ promises[d].status = "fulfilled"
               /\ promises[d].value.success
               /\ promises[d].value.translatedText = "Hello "
    /\ \A c \in 1..Len(languages) :
           (/\ batchPc = "returned"
            /\ Len(languages) = 3
            /\ RaisedTooManyRequests(c)
            /\ \A d \in 1..3 : d # c => DeliveredGoodBody(d))
           => /\ ~results[c].success
              /\ results[c].error = "[Google] QingQiuGuoYuPinFan, QingShaoHouChongShi"
              /\ \A d \in 1..3 : d # c => results[d].success /\ results[d].translatedText = "Hello "
              /\ Cardinality({i \in 1..3 : ~results[i].success}) = 1

\* the second of three targets was rate limited, the others succeeded
C11_Witness ==
    /\ batchPc = "returned"
    /\ Len(languages) = 3
    /\ RaisedTooManyRequests(2)
    /\ DeliveredGoodBody(1)
    /\ DeliveredGoodBody(3)

\* the transport of target c returned a JSON text; its parsed value
ReceivedJson(c) ==
    /\ op \in {"translate", "batch"}
    /\ outcome[c].type = "return"
    /\ "json" \in DOMAIN outcome[c].value
BodyOf(c) == outcome[c].value.json

\* the body of target c has a fragment array data[0]
HasFragmentArray(c) ==
    /\ ReceivedJson(c)
    /\ IsArray(BodyOf(c))
    /\ Len(BodyOf(c).a) >= 1
    /\ IsArray(BodyOf(c).a[1])
FragmentsOf(c) == BodyOf(c).a[1].a

\* a fragment survives when it is an array whose first element is not null,
\* undefined (absent included) or the empty string
Survives(item) ==
    /\ IsArray(item)
    /\ Len(item.a) >= 1
    /\ item.a[1] \notin {Null, Undefined, Str("")}

\* C12: when no fragment of data[0] survives the filter (the array is empty,
\* or every entry is invalid), translate returns success=false with empty
\* text and an error containing the response-format-error message.
C12_NoSurvivorIsFormatError ==
    \A c \in Slots :
        (HasFragmentArray(c) /\ SelectSeq(FragmentsOf(c), Survives) = <<>>)
        => /\ promises[c].status = "fulfilled"
           /\ ~promises[c].value.success
           /\ promises[c].value.translatedText = ""
           /\ Includes(promises[c].value.error, "XiangYingGeShiCuoWu")

\* a non-empty fragment array in which every entry is invalid
C12_Witness ==
    /\ op = "translate"
    /\ outcome[1] = Return(JSONStringify(Arr(<<Arr(<<Arr(<<Str("")>>), Null>>), Null, Str("ko")>>)))
    /\ promises[1].status = "fulfilled"
    /\ ~promises[1].value.success

RECURSIVE ConcatSurvivors(_)
\* the first elements of the surviving fragments, concatenated in order
ConcatSurvivors(items) ==
    IF items = <<>> THEN ""
    ELSE (IF Survives(Head(items)) THEN JSToString(Head(items).a[1]) ELSE "")
         \o ConcatSurvivors(Tail(items))

\* C13: for a body with a fragment array of which at least one fragment
\* survives, translate succeeds and translatedText is the concatenation, in
\* order and with nothing between or around, of the first elements of the
\* surviving fragments; nothing else of the body enters the text.
C13_TextIsConcatenation ==
    \A c \in Slots :
        (HasFragmentArray(c) /\ SelectSeq(FragmentsOf(c), Survives) # <<>>)
        => /\ promises[c].status = "fulfilled"
           /\ promises[c].value.success
           /\ promises[c].value.translatedText = ConcatSurvivors(FragmentsOf(c))

\* two surviving fragments, the two-slot one second
C13_Witness ==
    /\ op = "translate"
    /\ outcome[1] = Return(JSONStringify(Arr(<<Arr(<<Arr(<<Str(" ")>>), Arr(<<Str("Hello"), Str("orig")>>)>>), Null, Str("ko")>>)))
    /\ promises[1].status = "fulfilled"
    /\ promises[1].value.translatedText = " Hello"

\* the body of target c is no array / is an array whose first element is
\* missing or no array
TopLevelNotArray(c) == ReceivedJson(c) /\ ~IsArray(BodyOf(c))
FirstElementNotArray(c) ==
    /\ ReceivedJson(c)
    /\ IsArray(BodyOf(c))
    /\ Len(BodyOf(c).a) = 0 \/ ~IsArray(BodyOf(c).a[1])

\* C14 as stated: for a body that is no array the error of the result carries
\* the not-array-format message, for a body whose first element is missing
\* or no array it carries the missing-translation-data message; the promise
\* of translate is fulfilled with success=false in both cases.
C14_ErrorCarriesParseMessage ==
    \A c \in Slots :
        /\ TopLevelNotArray(c) =>
              /\ promises[c].status = "fulfilled"
              /\ ~promises[c].value.success
              /\ Includes(promises[c].value.error, "XiangYingBuShiShuZuGeShi")
        /\ FirstElementNotArray(c) =>
              /\ promises[c].status = "fulfilled"
              /\ ~promises[c].value.success
              /\ Includes(promises[c].value.error, "QueShaoFanYiShuJu")

\* C14 amended: parseTranslationResponse raises the not-array-format message
\* for a body that is no array and the missing-translation-data message for a
\* body whose first element is missing or no array; translate catches both
\* and returns success=false with the one response-format-error message, in
\* which neither of the two appears; nothing is thrown past translate.
C14_ParseMessageReplaced ==
    \A c \in Slots :
        /\ TopLevelNotArray(c) =>
              /\ parseTranslationResponse(outcome[c].value) = Throw(Error(MsgNotArray))
              /\ promises[c].status = "fulfilled"
              /\ ~promises[c].value.success
              /\ promises[c].value.error = "[Google] XiangYingGeShiCuoWu: WuFaJieXiFanYiJieGuo"
        /\ FirstElementNotArray(c) =>
              /\ parseTranslationResponse(outcome[c].value) = Throw(Error(MsgMissingData))
              /\ promises[c].status = "fulfilled"
              /\ ~promises[c].value.success
              /\ promises[c].value.error = "[Google] XiangYingGeShiCuoWu: WuFaJieXiFanYiJieGuo"

\* a body that is a plain object
C14_Witness ==
    /\ op = "translate"
    /\ outcome[1] = Return(JSONStringify(Obj))
    /\ promises[1].status = "fulfilled"
    /\ ~promises[1].value.success

\* a get/post call of slot c has raised; the raw failure of its last attempt
\* (undefined when it made none)
Raised(c) == op \in {"get", "post"} /\ outcome[c].type = "throw"
LastFailure(c) == call[c].lastError
HasResponse(e) == IsAxiosError(e) /\ e.response # Undefined

\* C15: the message of the error get/post raises is determined by the raw
\* failure, by this table: not an axios error -> unknown error; timeout or
\* aborted -> request timed out; no response with ENOTFOUND/EAI_AGAIN -> could
\* not resolve the service address; no response otherwise -> could not
\* connect; 400 -> invalid request; 429 -> rate limited; 500/502/503/504 ->
\* temporarily unavailable; any other status -> the generic failure message
\* carrying the status.
C15_ConversionTable ==
    \A c \in Slots : Raised(c) =>
        LET e == LastFailure(c)
            message == outcome[c].value.message
        IN IF ~IsAxiosError(e) THEN message = "WeiZhiCuoWu"
           ELSE IF e.code = "ECONNABORTED" \/ Includes(e.message, "timeout") THEN message = "FanYiQingQiuChaoShi"
           ELSE IF ~HasResponse(e) /\ e.code \in {"ENOTFOUND", "EAI_AGAIN"} THEN message = "WuFaJieXiFanYiFuWuDiZhi"
           ELSE IF ~HasResponse(e) THEN message = "WuFaLianJieDaoFanYiFuWu"
           ELSE IF e.response.status = 400 THEN message = "WuXiaoDeFanYiQingQiu"
           ELSE IF e.response.status = 429 THEN message = "QingQiuGuoYuPinFan, QingShaoHouChongShi"
           ELSE IF e.response.status \in {500, 502, 503, 504} THEN message = "FanYiFuWuZanShiBuKeYong"
           ELSE message = "FanYiShiBai: " \o ToString(e.response.status)

\* a call that ended on a 501: the generic message with the status
C15_Witness ==
    /\ Raised(1)
    /\ LastFailure(1) = HttpFailure(501)
    /\ outcome[1].value.message = "FanYiShiBai: 501"

\* C16: the error get/post raises has no statusCode exactly when no HTTP
\* response was received (timeout, DNS, refused connection, a failure of
\* unknown shape), and has the response's status as statusCode exactly when
\* a response with a non-2xx status was received.
C16_StatusCodeIffResponse ==
    \A c \in Slots : Raised(c) =>
        LET e == LastFailure(c)
            statusCode == outcome[c].value.statusCode
        IN /\ statusCode = Undefined <=> ~HasResponse(e)
           /\ HasResponse(e) =>
                 /\ statusCode = Num(e.response.status)
                 /\ e.response.status < 200 \/ e.response.status >= 300

\* one call refused at the network layer: no statusCode
C16_Witness ==
    /\ Raised(1)
    /\ LastFailure(1) = NetRefused
    /\ outcome[1].value.statusCode = Undefined
    /\ made[1] >= 2

\* the value translate's catch block received for target c
Caught(c) ==
    IF outcome[c].type = "throw" THEN outcome[c].value
    ELSE parseTranslationResponse(outcome[c].value).value

\* the description of a failure, by the precedence of the claim
Described(e) ==
    IF e.class = "HTTPError" THEN
        IF e.statusCode = Num(429) THEN "QingQiuGuoYuPinFan, QingShaoHouChongShi"
        ELSE IF e.statusCode = Undefined THEN
            IF Includes(e.message, "ChaoShi") THEN "FanYiQingQiuChaoShi"
            ELSE IF Includes(e.message, "WuFaLianJie") THEN "WuFaLianJieDaoFanYiFuWu"
            ELSE IF Includes(e.message, "WuFaJieXi") THEN "WuFaJieXiFanYiFuWuDiZhi"
            ELSE "WangLuoCuoWu: " \o e.message
        ELSE IF e.statusCode.n >= 500 THEN "FanYiFuWuZanShiBuKeYong (" \o ToString(e.statusCode.n) \o ")"
        ELSE e.message
    ELSE IF e.class \in {"Error", "SyntaxError"} THEN
        IF Includes(e.message, "WuFaJieXi") THEN "XiangYingGeShiCuoWu: WuFaJieXiFanYiJieGuo"
        ELSE e.message
    ELSE "FanYiShiBai"

\* C17: the error of every failed result of the adapter is "[Google] "
\* followed by the description of the caught value by this precedence:
\* HTTPError 429 -> too many requests; HTTPError without status -> timeout,
\* else unreachable, else name resolution, else "network error: <message>";
\* HTTPError >= 500 -> "service unavailable (<status>)"; other HTTPError ->
\* its message; another Error -> the response-format-error message when its
\* message indicates unparsable content, else its message; a value that is
\* no Error -> translation failed.
C17_GeneratePrecedence ==
    \A c \in Slots :
        (/\ op \in {"translate", "batch"}
         /\ outcome[c].type \in {"return", "throw"}
         /\ promises[c].status = "fulfilled"
         /\ ~promises[c].value.success)
        => promises[c].value.error = "[Google] " \o Described(Caught(c))

\* an HTTPError without status whose message matches no network class
C17_Witness ==
    /\ op = "translate"
    /\ outcome[1] = Throw(HTTPError("WeiZhiCuoWu", Undefined))
    /\ promises[1].status = "fulfilled"
    /\ promises[1].value.error = "[Google] WangLuoCuoWu: WeiZhiCuoWu"

\* an identifier getAvailableEngines() does not list
UnknownEngine(id) == \A i \in 1..Len(getAvailableEngines) : getAvailableEngines[i] # Str(id)

\* the text names every available engine
EnumeratesEngines(text) == \A i \in 1..Len(getAvailableEngines) : Includes(text, getAvailableEngines[i].s)

\* no request has been issued: no frame of requestWithRetry exists, no
\* attempt was made, no translation was dispatched
NoRequestIssued ==
    \A c \in Slots : call[c] = NoFrame /\ made[c] = 0 /\ promises[c] = Pending

\* constructing a TranslationService with identifier `argument` has failed
\* before any request: the Error names the identifier and the valid ones
ConstructionFailed ==
    /\ service.type = "throw"
    /\ Includes(service.value.message, "Unknown engine type: " \o argument.s)
    /\ EnumeratesEngines(service.value.message)
    /\ NoRequestIssued

\* main has rejected the --engine option `argument` before any request: exit
\* code 1, the option and the valid identifiers on stderr
EngineOptionRejected ==
    /\ cli.pc = "exited"
    /\ cli.code = 1
    /\ Len(cli.stderr) = 2
    /\ cli.stderr[1] = "Invalid engine: " \o argument.s
    /\ EnumeratesEngines(cli.stderr[2])
    /\ NoRequestIssued

\* C18 as stated: for every identifier outside getAvailableEngines(),
\* constructing a TranslationService fails and the command line's engine check
\* fails, with a message enumerating the valid identifiers and before any
\* request; construction with an available identifier succeeds.
C18_UnknownEngineFails ==
    /\ (op = "new" /\ argument.t = "string") =>
           IF UnknownEngine(argument.s) THEN ConstructionFailed ELSE service.type = "return"
    /\ (cli # NoProcess /\ UnknownEngine(argument.s)) => EngineOptionRejected

\* C18 amended: construction fails so for every identifier outside
\* getAvailableEngines(), the empty one included; the command line's engine
\* check fails so for every non-empty identifier outside it, while an empty
\* --engine value counts as not given: main goes on with an available
\* engine (TRANSLATE_ENGINE, the configuration file or the default), and
\* from then on only its other exits can end it.
C18_UnknownEngineFailsUnlessEmptyOption ==
    /\ (op = "new" /\ argument.t = "string") =>
           IF UnknownEngine(argument.s) THEN ConstructionFailed ELSE service.type = "return"
    /\ (cli # NoProcess /\ UnknownEngine(argument.s) /\ argument.s # "") => EngineOptionRejected
    /\ (cli # NoProcess /\ argument.s = "") =>
           \/ cli = Running /\ service.type = "return" /\ ~UnknownEngine(service.value.engine)
           \/ cli.pc = "exited" /\ cli.code = 0 /\ service.type = "return"
           \/ cli.pc = "exited" /\ cli.code = 1 /\ cli.stderr[1] = "ShuRuYanZhengShiBai:" /\ NoRequestIssued
    /\ ~NoRequestIssued => service.type = "return" /\ ~UnknownEngine(service.value.engine)

\* the constructor called with the unknown identifier "bing"
C18_Witness ==
    /\ op = "new"
    /\ argument = Str("bing")
    /\ service = Throw(Error("Unknown engine type: bing. Available engines: google"))
    /\ NoRequestIssued

\* the result the adapter returned for target c, given how its transport
\* completed
AdapterResult(c) == EngineTranslate(RequestOf(languages, c), outcome[c]).value

\* the name configured for a code, the code itself when none is
ConfiguredNameOr(code) ==
    IF \E i \in 1..Len(targetLanguages) : targetLanguages[i].code = code
    THEN targetLanguages[CHOOSE i \in 1..Len(targetLanguages) : targetLanguages[i].code = code].name
    ELSE code

C20_DefaultsToConfiguredCodes ==
    (op = "batch" /\ cli = NoProcess) =>
        /\ argument = Undefined =>
              /\ Len(languages) = Len(targetLanguages)
              /\ \A i \in 1..Len(targetLanguages) : languages[i] = targetLanguages[i].code
        /\ argument # Undefined => languages = argument.a
        /\ batchPc = "returned" =>
              /\ Len(results) = Len(languages)
              /\ \A i \in 1..Len(languages) : results[i].targetLanguage = languages[i]

\* a returned batch that was called without a list
C20_Witness ==
    /\ batchPc = "returned"
    /\ cli = NoProcess
    /\ argument = Undefined
    /\ Len(results) = 2
    /\ results[1].targetLanguage = "en"
    /\ results[2].targetLanguage = "ja"

\* C21: batchTranslate starts the first network attempt of every target
\* before it waits for any completion: in every state of a batch each target
\* has been dispatched (its request is in flight, backing off, or over),
\* whatever state its siblings are in.
C21_AllDispatchedBeforeWaiting ==
    op = "batch" =>
        /\ batchPc \in {"awaiting", "returned"}
        /\ \A c \in 1..Len(languages) :
              /\ call[c].pc \in {"request", "sleep", "done"}
              /\ call[c].pc \in {"request", "sleep"} => made[c] >= 1

\* the first target is backing off after a failure, the second still waits
\* for its first response, the third is over
C21_Witness ==
    /\ batchPc = "awaiting"
    /\ Len(languages) = 3
    /\ call[1].pc = "sleep"
    /\ call[2].pc = "request"
    /\ made[2] = 1
    /\ promises[3].status = "fulfilled"

\* the slots whose request state (frame, attempts issued, delays slept)
\* differs between the two states of a step
SlotsTouched == {c \in Slots : call'[c] # call[c] \/ made'[c] # made[c] \/ waits'[c] # waits[c]}

\* C22: while calls are in progress, no step of any of them changes the
\* service's engine or configured language list or the client's default
\* timeout or default retries, and a step of one request changes the retry
\* counter, last error and history of that request only.
C22_NoSharedStateChanged ==
    [][op # "idle" =>
          /\ UNCHANGED <<service, targetLanguages, defaultTimeout, defaultRetries, optRetries>>
          /\ Cardinality(SlotsTouched) <= 1]_vars

\* two requests of one batch in flight with different retry counters and
\* last errors, on the service and client as constructed
C22_Witness ==
    /\ op = "batch"
    /\ call[1].pc = "request" /\ call[1].attempt = 1 /\ call[1].lastError # Undefined
    /\ call[2].pc = "request" /\ call[2].attempt = 0 /\ call[2].lastError = Undefined
    /\ defaultRetries = ConstructDefaultRetries(optRetries)
    /\ defaultTimeout = DefaultTimeoutMs

\* the attempts one call may issue: one, and one more per configured retry
AttemptBudget(c) == IF call[c].maxRetries < 0 THEN 0 ELSE call[c].maxRetries + 1

\* C23: under LiveSpec (every attempt in flight eventually completes), every
\* get/post call eventually returns or raises, having issued no more
\* attempts than its retry budget allows, and every batchTranslate call
\* eventually returns.
C23_Terminates ==
    /\ [](\A c \in Slots : call[c].pc # "none" => made[c] <= AttemptBudget(c))
    /\ (op \in {"get", "post"} ~> outcome[1].type # "pending")
    /\ (batchPc = "awaiting" ~> batchPc = "returned")

\* a batch has returned although one of its targets was rejected and
\* another failed
C23_Witness ==
    /\ batchPc = "returned"
    /\ \E i, j \in 1..Len(languages) :
          /\ promises[i].status = "rejected"
          /\ promises[j].status = "fulfilled" /\ ~promises[j].value.success

\* the placeholder of a target whose promise was rejected
SynthesizedEntry(code) ==
    [targetLanguage |-> code, languageName |-> ConfiguredNameOr(code),
     translatedText |-> "", success |-> FALSE, error |-> "FanYiShiBai"]

\* C24: a returned batch has one result per target; at the position of a
\* target whose promise was rejected stands the synthesized entry (the
\* target's code, its configured name or else the code, success false, text
\* "", error "translation failed"), and at every other position the value
\* that target's promise was fulfilled with.
C24_RejectedTargetSynthesized ==
    batchPc = "returned" =>
        /\ Len(results) = Len(languages)
        /\ \A i \in 1..Len(languages) :
              /\ promises[i].status = "rejected" => results[i] = SynthesizedEntry(languages[i])
              /\ promises[i].status = "fulfilled" => results[i] = promises[i].value

\* a returned batch whose second and third promise were rejected, one for a
\* code that is not configured, next to a success
C24_Witness ==
    /\ batchPc = "returned"
    /\ languages = <<"en", "xx", "en">>
    /\ promises[1].status = "fulfilled" /\ results[1].success
    /\ promises[2].status = "rejected" /\ results[2].languageName = "xx"
    /\ promises[3].status = "rejected" /\ results[3].languageName = "English"

\* the place the documented priority names for a call: the --config path
\* when given, otherwise TRANSLATE_CONFIG_PATH when set, otherwise
\* languages.conf in the current directory
NamedPlace ==
    IF Truthy(config.configPath) THEN config.configPath.s
    ELSE IF Truthy(config.envPath) THEN config.envPath.s
    ELSE DEFAULT_CONFIG_FILENAME

\* C25: the configuration file loadConfig uses is the one at the place the
\* priority names (the --config path when given, otherwise
\* TRANSLATE_CONFIG_PATH, otherwise ./languages.conf), and the default
\* language list is returned only when no configuration file was found.
C25_ConfigLocationPriority ==
    op = "config" =>
        /\ config.returned.configFilePath # Null => config.returned.configFilePath.s = NamedPlace
        /\ config.returned.languages = DEFAULT_TARGET_LANGUAGES => config.returned.configFilePath = Null

\* --config names a file that does not exist while ./languages.conf does:
\* the entries of ./languages.conf are returned and nothing is reported
C25_MissingConfigPathPassedOver ==
    /\ op = "config"
    /\ Truthy(config.configPath)
    /\ ~existsSync(config.fs, config.configPath.s)
    /\ config.returned.configFilePath = Str(DEFAULT_CONFIG_FILENAME)
    /\ config.returned.languages = <<[code |-> "en", name |-> "English"], [code |-> "ja", name |-> "Japanese"]>>
    /\ config.returned.console = <<>>

\* what a line of a configuration file stands for, line by line: an entry,
\* a line to warn about, or a line passed over in silence
EntryLine(code, name) == [kind |-> "entry", entry |-> [code |-> code, name |-> name]]
WarnLine == [kind |-> "warn"]
SilentLine == [kind |-> "silent"]

MeaningOf(line) ==
    CASE line = "en:English"      -> EntryLine("en", "English")
      [] line = " ja = Japanese " -> EntryLine("ja", "Japanese")
      [] line = "xx,Xish:X"       -> EntryLine("xx,Xish", "X")
      [] line = "de:German"       -> EntryLine("de", "German")
      [] line = "fr:French"       -> EntryLine("fr", "French")
      [] line = "ja:Japanese"     -> EntryLine("ja", "Japanese")
      [] line = "a:b:c"           -> WarnLine
      [] line = "de"              -> WarnLine
      [] line = "fr:"             -> WarnLine
      [] OTHER                    -> SilentLine

\* the lines of the file loadConfig read, none when it read no file
LinesRead ==
    LET path == config.returned.configFilePath IN
    IF path # Null /\ config.fs[path.s].kind = "file" THEN config.fs[path.s].lines ELSE <<>>

\* the entries of the lines, in the order of the lines
RECURSIVE EntriesOf(_)
EntriesOf(lines) ==
    IF lines = <<>> THEN <<>>
    ELSE (IF MeaningOf(Head(lines)).kind = "entry" THEN <<MeaningOf(Head(lines)).entry>> ELSE <<>>)
         \o EntriesOf(Tail(lines))

\* C29: loadConfig returns a non-empty list whose entries all have a
\* non-empty code and a non-empty name: the entries of the file in file
\* order when it has any, else (no file, a file that cannot be read, a file
\* without entries) the default list; and a warning naming its line number
\* is written for exactly the malformed and empty-field lines.
C29_LoadConfigReturnsUsableList ==
    op = "config" =>
        LET returned == config.returned IN
        /\ Len(returned.languages) > 0
        /\ \A i \in 1..Len(returned.languages) :
              returned.languages[i].code # "" /\ returned.languages[i].name # ""
        /\ returned.languages = (IF EntriesOf(LinesRead) # <<>> THEN EntriesOf(LinesRead)
                                 ELSE DEFAULT_TARGET_LANGUAGES)
        /\ \A n \in 1..Len(LinesRead) :
              (MeaningOf(LinesRead[n]).kind = "warn")
              <=> \E k \in 1..Len(returned.console) :
                     StartsWith(returned.console[k], "Warning: Line " \o ToString(n) \o ": ")

\* a file whose first line has an empty name and whose second is a padded
\* entry: the entry is returned, the first line is warned about
C29_Witness ==
    /\ op = "config"
    /\ config.fs[DEFAULT_CONFIG_FILENAME] = TextFile(<<"fr:", " ja = Japanese ">>)
    /\ config.returned.languages = <<[code |-> "ja", name |-> "Japanese"]>>
    /\ config.returned.console
          = <<"Warning: Line 1: Invalid language configuration - code or name is empty">>

\* C26: a get/post call that has returned returned the body of the attempt
\* that succeeded, which was its last: the frame is closed at that attempt,
\* every earlier attempt failed and was followed by one backoff wait, no wait
\* follows the success, and from then on no attempt is made, no wait is
\* slept and the outcome stays.
C26_FirstSuccessReturned ==
    /\ [](op \in {"get", "post"} /\ outcome[1].type = "return" =>
            /\ call[1].pc = "done"
            /\ outcome[1].value \in {ResponseText(data) : data \in DirectDatas}
            /\ made[1] = call[1].attempt + 1
            /\ Len(waits[1]) = made[1] - 1)
    /\ [][(op \in {"get", "post"} /\ outcome[1].type = "return") =>
             (call' = call /\ made' = made /\ waits' = waits /\ outcome' = outcome)]_vars

\* a get that returned on its third attempt, after two failures
C26_Witness ==
    /\ op = "get"
    /\ outcome[1].type = "return"
    /\ made[1] = 3
    /\ waits[1] = <<100, 200>>
    /\ call[1].lastError # Undefined

\* C27: a get/post call that has raised has made at least one network
\* attempt, its last attempt failed, and the error raised is the conversion
\* of that failure; for every retries value, also 0 and negative ones.
C27_RaisesOnlyAfterFailedAttempt ==
    \A c \in Slots : Raised(c) =>
        /\ made[c] >= 1
        /\ LastFailure(c) \in RawFailures
        /\ outcome[c] = Throw(convertError(LastFailure(c)))

\* get(url, {retries: -1}) has raised the unknown-error HTTPError without
\* any attempt
C27_RaisedWithoutAttempt ==
    /\ op = "get"
    /\ argument = Num(-1)
    /\ made[1] = 0
    /\ LastFailure(1) = Undefined
    /\ outcome[1].type = "throw"
    /\ outcome[1].value.message = "WeiZhiCuoWu"

\* what the position of target i holds once its own request has completed
\* with `done`, computed for that target alone
ResultOfTarget(i, done) == TranslatePromise(targetLanguages, RequestOf(languages, i), done).value

\* C28: what batchTranslate holds and returns for a target is a function of
\* that target's code, the configured languages and how that target's own
\* request ended (or of its promise having been rejected), and of nothing
\* else: whichever targets completed before or after it, and in whatever
\* order, a fulfilled promise holds ResultOfTarget and the returned sequence
\* holds, position by position, ResultOfTarget or the synthesized entry.
C28_ResultsIndependentOfSchedule ==
    op = "batch" =>
        /\ \A i \in 1..Len(languages) :
              /\ promises[i].status = "fulfilled" =>
                    /\ outcome[i].type # "pending"
                    /\ promises[i].value = ResultOfTarget(i, outcome[i])
              /\ promises[i].status = "rejected" => outcome[i].type = "pending"
        /\ batchPc = "returned" =>
              results = [i \in 1..Len(languages) |->
                            IF outcome[i].type = "pending" THEN SynthesizedEntry(languages[i])
                            ELSE ResultOfTarget(i, outcome[i])]

\* a batch of three in which the last target has completed with a failure
\* and the second with a success while the first is still backing off
C28_Witness ==
    /\ batchPc = "awaiting"
    /\ Len(languages) = 3
    /\ call[1].pc = "sleep"
    /\ promises[2].status = "fulfilled" /\ promises[2].value.success
    /\ promises[3].status = "fulfilled" /\ ~promises[3].value.success

\* the rank of a result: the position of its code in TARGET_LANGUAGES, and
\* one more than the last position when the code is not listed
RankOf(result) ==
    IF \E i \in 1..Len(TARGET_LANGUAGES) : TARGET_LANGUAGES[i].code = result.targetLanguage
    THEN CHOOSE i \in 1..Len(TARGET_LANGUAGES) : TARGET_LANGUAGES[i].code = result.targetLanguage
    ELSE Len(TARGET_LANGUAGES) + 1

\* the arrangement of the input positions by rank, positions of equal rank
\* in input order
ArrangementOf(rs) ==
    CHOOSE p \in [1..Len(rs) -> 1..Len(rs)] :
        /\ \A k, l \in 1..Len(rs) : k # l => p[k] # p[l]
        /\ \A k, l \in 1..Len(rs) : k < l =>
              \/ RankOf(rs[p[k]]) < RankOf(rs[p[l]])
              \/ RankOf(rs[p[k]]) = RankOf(rs[p[l]]) /\ p[k] < p[l]

\* C30: format returns as many lines as it was given results, line k being
\* the line of the k-th result in the order of the positions of the codes in
\* TARGET_LANGUAGES, results with codes that are not listed after all
\* others, results of equal rank in input order; the array it was given is
\* as it was; and main prints one line for every result of the batch.
C30_OneLinePerResultInListOrder ==
    /\ op = "format" =>
          LET rs == formatted.results
              p == ArrangementOf(rs)
          IN /\ Len(formatted.returned) = Len(rs)
             /\ \A k \in 1..Len(rs) : formatted.returned[k] = FormatLine(rs[p[k]], formatted.options)
             /\ formatted.after = rs
    /\ (cli.pc = "exited" /\ cli.code = 0) =>
          /\ Len(cli.stdout[2]) = Len(results)
          /\ \A k \in 1..Len(results) :
                cli.stdout[2][k] = FormatLine(results[ArrangementOf(results)[k]],
                                              FormatterOptions(Undefined, Str(service.value.engine)))

\* two results with codes that are not listed, given before a listed one:
\* the listed one comes first, the other two follow in the order given
C30_Witness ==
    /\ op = "format"
    /\ formatted.options = Undefined
    /\ Len(formatted.results) = 3
    /\ formatted.results[1].targetLanguage = "yy"
    /\ formatted.results[2].targetLanguage = "xx"
    /\ formatted.results[3].targetLanguage = "en"
    /\ formatted.returned = <<green("English: Hello"), green("yy: Salut"), red("xx: [CuoWu] FanYiShiBai")>>
    /\ formatted.after = formatted.results

====
